---- MODULE Spec2Model ----
(***************************************************************************)
(* Model of src/src/sdlsound.cpp: the sound-effect resolver (sfx_map), the *)
(* resource table, and the per-voice playback engine                       *)
(* (sound_effect_handler).                                                 *)
(***************************************************************************)
EXTENDS Integers, Sequences, FiniteSets, TLC

(***************************************************************************)
(* Bounds of the model.                                                    *)
(***************************************************************************)
\* number of load_sound_effects calls in one run
MaxLoads == 2
\* longest source buffer of a voice, in frames
MaxSource == 3
\* largest finite nloops a voice is started with
MaxLoops == 2
\* longest source buffer of a voice started with nloops = -1, in frames
MaxForeverSource == 1
\* voices started in one run of the mixer
MaxVoices == 2

(***************************************************************************)
(* Input alphabets.                                                        *)
(***************************************************************************)
\* ids and variants that are asked for; "mist" is never loaded
QueryIds == {"", "fire", "mist"}
QueryVariants == {"default", "heavy"}
\* season strings; "bogus" is not a season, "summer" is never loaded
LoadSeasons == {"", "winter", "bogus"}
QuerySeasons == {"", "winter", "summer", "bogus"}
\* std::optional<bool>: the empty set is std::nullopt
OptBool == {{}, {TRUE}, {FALSE}}
\* the best-match lookups that are carried out and recorded
PlayQueries ==
    {[id |-> "fire", variant |-> "heavy", season |-> "winter",
      indoors |-> {TRUE}, night |-> {TRUE}],
     [id |-> "fire", variant |-> "default", season |-> "",
      indoors |-> {}, night |-> {}]}
\* the "variant" member of a record, after the has_array/has_string/else
\* normalisation of load_sound_effects (lines 579-586)
LoadVariants == {<<"default">>, <<"heavy", "default">>}
\* the records that are loaded: every combination under the id "fire", and
\* one record whose id is the empty string
LoadRecords ==
    [id : {"fire"}, variants : LoadVariants, season : LoadSeasons,
     indoors : OptBool, night : OptBool, volume : {100},
     files : {<<"a.ogg">>}]
    \cup
    {[id |-> "", variants |-> <<"default">>, season |-> "", indoors |-> {},
      night |-> {}, volume |-> 80, files |-> <<"a.ogg", "b.ogg">>]}

(***************************************************************************)
(* std::optional<bool>                                                     *)
(***************************************************************************)
has_value(opt) == opt # {}
value(opt) == CHOOSE b \in opt : TRUE
\* bool converted to int, as in "opt.has_value() ? opt.value() : defl"
BoolToInt(b) == IF b THEN 1 ELSE 0

(***************************************************************************)
(* Enumerations (lines 99-151) and the value standing for a thrown         *)
(* std::invalid_argument.                                                  *)
(***************************************************************************)
sfx_season_NONE == 0
sfx_season_SPRING == 1
sfx_season_SUMMER == 2
sfx_season_AUTUMN == 3
sfx_season_WINTER == 4
sfx_in_or_out_EITHER == 0
sfx_in_or_out_OUTDOORS == 1
sfx_in_or_out_INDOORS == 2
sfx_in_or_out_COUNT == 3
sfx_time_of_day_ANY == 0
sfx_time_of_day_DAYTIME == 1
sfx_time_of_day_NIGHTTIME == 2
sfx_time_of_day_COUNT == 3
\* a conversion that throws yields this value; no enumerator is negative
invalid_argument == -1

\* mutant: a string that names no season is taken as no season
season_from_string_lenient(str) ==
    IF str = "spring" THEN sfx_season_SPRING
    ELSE IF str = "summer" THEN sfx_season_SUMMER
    ELSE IF str = "autumn" THEN sfx_season_AUTUMN
    ELSE IF str = "winter" THEN sfx_season_WINTER
    ELSE sfx_season_NONE

season_from_string(str) ==
    IF str = "" THEN sfx_season_NONE
    ELSE IF str = "spring" THEN sfx_season_SPRING
    ELSE IF str = "summer" THEN sfx_season_SUMMER
    ELSE IF str = "autumn" THEN sfx_season_AUTUMN
    ELSE IF str = "winter" THEN sfx_season_WINTER
    ELSE invalid_argument

in_or_out_from_int(v) ==
    LET adjusted == v + 1
    IN IF adjusted >= sfx_in_or_out_COUNT \/ adjusted < 0
       THEN invalid_argument ELSE adjusted

tod_from_int(v) ==
    LET adjusted == v + 1
    IN IF adjusted >= sfx_time_of_day_COUNT \/ adjusted < 0
       THEN invalid_argument ELSE adjusted

\* mutant: std::nullopt read as false
bool_or_unset_is_false(opt, defl) ==
    IF has_value(opt) THEN BoolToInt(value(opt)) ELSE 0

bool_or(opt, defl) == IF has_value(opt) THEN BoolToInt(value(opt)) ELSE defl

(***************************************************************************)
(* std::map as a function; the nested map of sfx_map is a function of      *)
(* functions, five levels deep, whose leaves are std::vector<sound_effect> *)
(* (sequences).  A pointer to a vector is modelled by the sequence of keys *)
(* that leads to it.                                                       *)
(***************************************************************************)
EmptyMap == [k \in {} |-> 0]
MapPut(m, k, v) == [x \in (DOMAIN m) \cup {k} |-> IF x = k THEN v ELSE m[x]]

\* results of the lookups: nullptr, a pointer to a bucket, or an exception
Nullptr == [kind |-> "nullptr"]
PtrTo(path) == [kind |-> "bucket", at |-> path]
Thrown == [kind |-> "throw"]

\* find_sfx( c, k, keys... ): every key must be present
RECURSIVE find_sfx(_, _, _)
find_sfx(c, keys, pre) ==
    LET k == Head(keys)
    IN IF k \notin DOMAIN c THEN Nullptr
       ELSE IF Len(keys) = 1 THEN PtrTo(Append(pre, k))
       ELSE find_sfx(c[k], Tail(keys), Append(pre, k))

\* mutant: no retry with the default
RECURSIVE find_closest_sfx_no_default(_, _, _)
find_closest_sfx_no_default(c, kds, pre) ==
    LET k == Head(kds)[1]
    IN IF k \notin DOMAIN c THEN Nullptr
       ELSE IF Len(kds) = 1 THEN PtrTo(Append(pre, k))
       ELSE find_closest_sfx_no_default(c[k], Tail(kds), Append(pre, k))

\* mutant: when the key and the default are both missing, any entry is taken
RECURSIVE find_closest_sfx_any(_, _, _)
find_closest_sfx_any(c, kds, pre) ==
    LET k == Head(kds)[1]
        d == Head(kds)[2]
        it == IF k \in DOMAIN c THEN {k}
              ELSE IF d \in DOMAIN c THEN {d}
              ELSE DOMAIN c
    IN IF it = {} THEN Nullptr
       ELSE LET key == CHOOSE x \in it : TRUE
            IN IF Len(kds) = 1 THEN PtrTo(Append(pre, key))
               ELSE find_closest_sfx_any(c[key], Tail(kds), Append(pre, key))

\* find_closest_sfx( c, k, d, kds... ): kds is a sequence of <<key, default>>
RECURSIVE find_closest_sfx(_, _, _)
find_closest_sfx(c, kds, pre) ==
    LET k == Head(kds)[1]
        d == Head(kds)[2]
        it == IF k \in DOMAIN c THEN {k}
              ELSE IF d \in DOMAIN c THEN {d}
              ELSE {}
    IN IF it = {} THEN Nullptr
       ELSE LET key == CHOOSE x \in it : TRUE
            IN IF Len(kds) = 1 THEN PtrTo(Append(pre, key))
               ELSE find_closest_sfx(c[key], Tail(kds), Append(pre, key))

\* emplace_sfx( c, k, keys... ): operator[] at every level creates what is
\* missing; the innermost value is an empty vector
RECURSIVE emplace_sfx(_, _)
emplace_sfx(c, keys) ==
    LET k == Head(keys)
    IN IF Len(keys) = 1
       THEN (IF k \in DOMAIN c THEN c ELSE MapPut(c, k, <<>>))
       ELSE MapPut(c, k, emplace_sfx(IF k \in DOMAIN c THEN c[k] ELSE EmptyMap,
                                     Tail(keys)))

\* the vector a pointer refers to
RECURSIVE Deref(_, _)
Deref(c, path) ==
    IF path = <<>> THEN c ELSE Deref(c[Head(path)], Tail(path))

\* the map with the vector at path replaced
RECURSIVE Store(_, _, _)
Store(c, path, vec) ==
    IF Len(path) = 1 THEN MapPut(c, Head(path), vec)
    ELSE MapPut(c, Head(path), Store(c[Head(path)], Tail(path), vec))

(***************************************************************************)
(* struct sfx_map (lines 237-268)                                          *)
(***************************************************************************)
\* the converted arguments of operator[] and find( const sfx_args & )
sfx_args_keys(key) ==
    <<key.id, key.variant, season_from_string(key.season),
      in_or_out_from_int(bool_or(key.indoors, -1)),
      tod_from_int(bool_or(key.night, -1))>>

Throws(keys) == \E i \in 3..5 : keys[i] = invalid_argument

\* sfx_map::operator[]: the path of the (possibly new) bucket, or Thrown
sfx_map_index_ptr(key) ==
    IF Throws(sfx_args_keys(key)) THEN Thrown ELSE PtrTo(sfx_args_keys(key))

\* sfx_map::operator[]: the map afterwards
sfx_map_index(eff, key) ==
    IF Throws(sfx_args_keys(key)) THEN eff
    ELSE emplace_sfx(eff, sfx_args_keys(key))

\* sfx_map::find( const sfx_args & ): exact lookup
sfx_map_find_exact(eff, key) ==
    IF Throws(sfx_args_keys(key)) THEN Thrown
    ELSE find_sfx(eff, sfx_args_keys(key), <<>>)

\* mutant: the time-of-day level falls back to daytime
closest_args_day_default(id, variant, season, is_indoors, is_night) ==
    << <<id, "">>,
       <<variant, "default">>,
       <<season_from_string(season), sfx_season_NONE>>,
       <<in_or_out_from_int(bool_or(is_indoors, -1)), sfx_in_or_out_EITHER>>,
       <<tod_from_int(bool_or(is_night, -1)), sfx_time_of_day_DAYTIME>> >>

\* the <<key, default>> pairs that sfx_map::find hands to find_closest_sfx
closest_args(id, variant, season, is_indoors, is_night) ==
    << <<id, "">>,
       <<variant, "default">>,
       <<season_from_string(season), sfx_season_NONE>>,
       <<in_or_out_from_int(bool_or(is_indoors, -1)), sfx_in_or_out_EITHER>>,
       <<tod_from_int(bool_or(is_night, -1)), sfx_time_of_day_ANY>> >>

\* sfx_map::find( id, variant, season, is_indoors, is_night ): best match
sfx_map_find(eff, id, variant, season, is_indoors, is_night) ==
    LET kds == closest_args(id, variant, season, is_indoors, is_night)
    IN IF \E i \in 3..5 : kds[i][1] = invalid_argument THEN Thrown
       ELSE find_closest_sfx(eff, kds, <<>>)

(***************************************************************************)
(* State.                                                                  *)
(***************************************************************************)
VARIABLES
    effects,        \* sfx_resources.sound_effects.effects
    resource,       \* sfx_resources.resource: sequence of [path, chunk]
    unique_paths,   \* path -> resource id
    sound_init_success,
    loads,          \* number of load_sound_effects calls so far
    inserted,       \* history: sfx_args key -> effects appended under it
    rejected,       \* history: number of load_sound_effects calls that threw
    query,          \* the arguments of the last best-match lookup
    found,          \* what that lookup returned
    \* one voice, from make_audio to on_finish
    voice,          \* "None", "Playing" or "Finished"
    handler,        \* the fields of its sound_effect_handler
    num_source_samples, \* audio_src->alen / bytes_per_sample
    nloops,         \* the nloops argument of make_audio
    stream_len,     \* len / bytes_per_sample of the last callback
    stream,         \* the frames the last callback wrote, in order
    halt_requested, \* the last callback called Mix_HaltChannel
    played,         \* history: source advance of all frames that carried
                    \* source samples, in units of 1 / IndexScale frame
    \* the mixer with all its channels, and the two threads
    audio_open,     \* the mixer is open (between init_sound and Mix_CloseAudio)
    chunks,         \* every Mix_Chunk: [owner, frames, frees]
    handlers,       \* every sound_effect_handler created by make_audio
    channels,       \* mixer channel -> [playing, chunk, effects]
    main,           \* the main thread: its position in make_audio / shutdown_sound
    ended_by,       \* history: per handler, what ran on_finish for it
    \* the volume of a play request
    SOUND_EFFECT_VOLUME,   \* the option of that name
    AMBIENT_SOUND_VOLUME,  \* the option of that name
    chunk_volume,   \* the volume field of a chunk of the resource table
    request,        \* history: the last play request and what it handed on
    \* the cache of decoded chunks
    decoded,        \* history: the resource ids load_chunk was called for
    got,            \* history: the last get_sfx_resource call
    \* background music
    playlists,      \* playlist id -> [loaded, entries, shuffle]
    current_music,  \* the Mix_Music loaded last, or NoMusic
    current_music_track_volume,
    current_playlist,
    current_playlist_at,
    absolute_playlist_at,
    playlist_indexes,       \* the play order, indexes counted from 0
    sound_enabled,  \* sounds::sound_enabled
    music_id,       \* what music::get_music_id_string() returns
    music_playing,  \* the mixer: the file it plays, or NoMusic
    music_volume,   \* the mixer: the value of the last Mix_VolumeMusic
    music_pc,       \* "running", or "terminated" after an uncaught exception
    music_op,       \* history: the last music operation and its argument
    \* pitch shifting
    pitch_s,        \* the frames of the source chunk, each <<left, right>>
    pitch,          \* the pitch factor, <<numerator, denominator>>
    pitch_result,   \* the frames of the chunk do_pitch_shift returned
    \* soundpacks
    sfx_preload,    \* the sfx_args keys to preload
    current_soundpack_path,
    soundsets,      \* how often load_soundset has run
    soundset_op,    \* history: the last of load_soundset and shutdown_sound
    \* play requests
    play            \* history: the last play request, what make_audio
                    \* returned to it and whether it logged an error

resolverVars == <<effects, resource, unique_paths, sound_init_success, loads,
                  inserted, rejected, query, found>>
voiceVars == <<voice, handler, num_source_samples, nloops, stream_len, stream,
               halt_requested, played>>
engineVars == <<audio_open, chunks, handlers, channels, main, ended_by>>
volumeVars == <<SOUND_EFFECT_VOLUME, AMBIENT_SOUND_VOLUME, chunk_volume, request>>
cacheVars == <<decoded, got>>
musicVars == <<playlists, current_music, current_music_track_volume,
               current_playlist, current_playlist_at, absolute_playlist_at,
               playlist_indexes, sound_enabled, music_id, music_playing,
               music_volume, music_pc, music_op>>
pitchVars == <<pitch_s, pitch, pitch_result>>
packVars == <<sfx_preload, current_soundpack_path, soundsets, soundset_op>>
playVars == <<play>>
vars == <<resolverVars, voiceVars, engineVars, volumeVars, cacheVars, musicVars, pitchVars, packVars, playVars>>

(***************************************************************************)
(* Resource table (lines 544-558)                                          *)
(***************************************************************************)
NoChunk == [loaded |-> FALSE]

\* add_sfx_path: <<resource id, resource', unique_paths'>>
add_sfx_path(res, up, path) ==
    IF path \in DOMAIN up THEN <<up[path], res, up>>
    ELSE LET result == Len(res)
         IN <<result,
              Append(res, [path |-> path, chunk |-> NoChunk]),
              MapPut(up, path, result)>>

\* sound_effect( volume, path )
sound_effect(volume, rid) == [volume |-> volume, resource_id |-> rid]

\* the inner loop of load_sound_effects (lines 590-592): every file is
\* interned and its effect appended to the bucket.
\* st = [vec, res, up]
RECURSIVE emplace_files(_, _, _)
emplace_files(st, volume, files) ==
    IF files = <<>> THEN st
    ELSE LET a == add_sfx_path(st.res, st.up, Head(files))
         IN emplace_files([vec |-> Append(st.vec, sound_effect(volume, a[1])),
                           res |-> a[2], up |-> a[3]],
                          volume, Tail(files))

\* the variant loop of load_sound_effects (lines 587-593).
\* st = [eff, res, up, thrown]
RECURSIVE load_variants(_, _, _, _, _)
load_variants(st, key, variants, volume, files) ==
    IF variants = <<>> \/ st.thrown THEN st
    ELSE LET k == [key EXCEPT !.variant = Head(variants)]
             p == sfx_map_index_ptr(k)
         IN IF p = Thrown THEN [st EXCEPT !.thrown = TRUE]
            ELSE LET e1 == sfx_map_index(st.eff, k)
                     f == emplace_files([vec |-> Deref(e1, p.at),
                                         res |-> st.res, up |-> st.up],
                                        volume, files)
                 IN load_variants([eff |-> Store(e1, p.at, f.vec),
                                   res |-> f.res, up |-> f.up,
                                   thrown |-> FALSE],
                                  key, Tail(variants), volume, files)

(***************************************************************************)
(* Resolver: loading and lookup.                                           *)
(***************************************************************************)
NoQuery == [asked |-> FALSE]

NoHandler == [current_sample_index |-> 0, loops_remaining |-> 0]

\* no voice
VoiceIdle ==
    /\ voice = "None"
    /\ handler = NoHandler
    /\ num_source_samples = 0
    /\ nloops = 0
    /\ stream_len = 0
    /\ stream = <<>>
    /\ halt_requested = FALSE
    /\ played = 0

\* nothing loaded
ResolverIdle ==
    /\ effects = EmptyMap
    /\ resource = <<>>
    /\ unique_paths = EmptyMap
    /\ sound_init_success = FALSE
    /\ loads = 0
    /\ inserted = EmptyMap
    /\ rejected = 0
    /\ query = NoQuery
    /\ found = Nullptr

MainIdle == [pc |-> "idle"]

\* the volume of a chunk as the mixer loads it, and the largest it takes
MIX_MAX_VOLUME == 128

\* the mixer was never opened
EngineIdle ==
    /\ audio_open = FALSE
    /\ chunks = <<>>
    /\ handlers = <<>>
    /\ channels = <<>>
    /\ main = MainIdle
    /\ ended_by = <<>>

\* no play request was made; the options have their defaults
VolumeIdle ==
    /\ SOUND_EFFECT_VOLUME = 100
    /\ AMBIENT_SOUND_VOLUME = 100
    /\ chunk_volume = MIX_MAX_VOLUME
    /\ request = [asked |-> FALSE]

\* no chunk was asked for
CacheIdle ==
    /\ decoded = <<>>
    /\ got = [asked |-> FALSE]

\* the music that plays, or the file that is loaded: none
NoMusic == [file |-> 0, volume |-> 0]

\* a playlist id that playlists has no entry for
NoPlaylist == [loaded |-> FALSE, entries |-> <<>>, shuffle |-> FALSE]

\* the ids playlists are loaded under
PlaylistNames == {"title", "game"}

\* no playlist is loaded and no music was started; sound is enabled
MusicIdle ==
    /\ playlists = [p \in PlaylistNames |-> NoPlaylist]
    /\ current_music = NoMusic
    /\ current_music_track_volume = 0
    /\ current_playlist = ""
    /\ current_playlist_at = 0
    /\ absolute_playlist_at = 0
    /\ playlist_indexes = <<>>
    /\ sound_enabled = TRUE
    /\ music_id = ""
    /\ music_playing = NoMusic
    /\ music_volume = MIX_MAX_VOLUME
    /\ music_pc = "running"
    /\ music_op = [op |-> "none"]

\* do_pitch_shift was not called
NotShifted == [done |-> FALSE]

PitchIdle ==
    /\ pitch_s = <<>>
    /\ pitch = <<1, 1>>
    /\ pitch_result = NotShifted

\* no soundpack was loaded
PackIdle ==
    /\ sfx_preload = <<>>
    /\ current_soundpack_path = ""
    /\ soundsets = 0
    /\ soundset_op = [op |-> "none"]

\* no play request was made
PlayIdle == play = [op |-> "none", seq |-> 0]

InitResolver ==
    /\ ResolverIdle /\ VoiceIdle /\ EngineIdle /\ VolumeIdle /\ CacheIdle
    /\ MusicIdle /\ PitchIdle /\ PackIdle /\ PlayIdle

\* init_sound (lines 316-352): the device opens or it does not
init_sound ==
    /\ ~sound_init_success
    /\ \E opened \in BOOLEAN : sound_init_success' = opened
    /\ UNCHANGED <<effects, resource, unique_paths, loads, inserted, rejected,
                   query, found>>
    /\ UNCHANGED <<voiceVars, engineVars, volumeVars, cacheVars, musicVars, pitchVars, packVars, playVars>>

\* history of what load_sound_effects appended, per sfx_args key
RECURSIVE Record(_, _, _, _)
Record(ins, key, variants, effs) ==
    IF variants = <<>> THEN ins
    ELSE LET k == [key EXCEPT !.variant = Head(variants)]
         IN Record(MapPut(ins, k, (IF k \in DOMAIN ins THEN ins[k] ELSE <<>>) \o effs),
                   key, Tail(variants), effs)

\* sfx::load_sound_effects (lines 560-594); a record whose season is not a
\* season makes operator[] throw in the first iteration, before anything
\* is stored
load_sound_effects(id, variants, season, indoors, night, volume, files) ==
    /\ loads < MaxLoads
    /\ loads' = loads + 1
    /\ IF ~sound_init_success
       THEN UNCHANGED <<effects, resource, unique_paths, inserted, rejected>>
       ELSE LET key == [id |-> id, variant |-> "", season |-> season,
                        indoors |-> indoors, night |-> night]
                r == load_variants([eff |-> effects, res |-> resource,
                                    up |-> unique_paths, thrown |-> FALSE],
                                   key, variants, volume, files)
            IN /\ effects' = r.eff
               /\ resource' = r.res
               /\ unique_paths' = r.up
               /\ rejected' = IF r.thrown THEN rejected + 1 ELSE rejected
               /\ inserted' = IF r.thrown THEN inserted
                              ELSE Record(inserted, key, variants,
                                          [i \in 1..Len(files) |->
                                              [volume |-> volume,
                                               resource_id |-> r.up[files[i]]]])
    /\ UNCHANGED <<sound_init_success, query, found>>
    /\ UNCHANGED <<voiceVars, engineVars, volumeVars, cacheVars, musicVars, pitchVars, packVars, playVars>>

\* find_random_effect / sfx::has_variant_sound (lines 655-674): the bucket
\* the best-match lookup returns
has_variant_sound(id, variant, season, is_indoors, is_night) ==
    /\ query' = [asked |-> TRUE,
                 q |-> [id |-> id, variant |-> variant, season |-> season,
                        indoors |-> is_indoors, night |-> is_night]]
    /\ found' = sfx_map_find(effects, id, variant, season, is_indoors, is_night)
    /\ UNCHANGED <<effects, resource, unique_paths, sound_init_success, loads,
                   inserted, rejected>>
    /\ UNCHANGED <<voiceVars, engineVars, volumeVars, cacheVars, musicVars, pitchVars, packVars, playVars>>

NextResolver ==
    \/ init_sound
    \/ \E r \in LoadRecords :
          load_sound_effects(r.id, r.variants, r.season, r.indoors, r.night,
                             r.volume, r.files)
    \/ \E q \in PlayQueries :
          has_variant_sound(q.id, q.variant, q.season, q.indoors, q.night)

SpecResolver == InitResolver /\ [][NextResolver]_vars

\* records and lookups with valid and invalid season strings
ValidationRecords ==
    [id : {"fire"}, variants : LoadVariants, season : LoadSeasons,
     indoors : {{}}, night : {{}, {TRUE}}, volume : {100},
     files : {<<"a.ogg">>, <<"b.ogg">>}]
ValidationQueries ==
    [id : {"fire"}, variant : {"default"}, season : {"winter", "bogus"},
     indoors : {{}}, night : {{}, {TRUE}}]

NextValidation ==
    \/ init_sound
    \/ \E r \in ValidationRecords :
          load_sound_effects(r.id, r.variants, r.season, r.indoors, r.night,
                             r.volume, r.files)
    \/ \E q \in ValidationQueries :
          has_variant_sound(q.id, q.variant, q.season, q.indoors, q.night)

SpecValidation == InitResolver /\ [][NextValidation]_vars

\* records with and without files
FilesRecords ==
    [id : {"fire"}, variants : LoadVariants, season : {"", "winter"},
     indoors : {{}}, night : {{}}, volume : {100},
     files : {<<>>, <<"a.ogg">>}]

NextFiles ==
    \/ init_sound
    \/ \E r \in FilesRecords :
          load_sound_effects(r.id, r.variants, r.season, r.indoors, r.night,
                             r.volume, r.files)
    \/ \E q \in PlayQueries :
          has_variant_sound(q.id, q.variant, q.season, q.indoors, q.night)

SpecFiles == InitResolver /\ [][NextFiles]_vars

(***************************************************************************)
(* struct sound_effect_handler (lines 685-826): one voice.                 *)
(*                                                                         *)
(* current_sample_index is a float that only ever holds multiples of       *)
(* sound_speed_factor = 0.25; it is kept here as an integer number of      *)
(* quarter frames, so floor, ceil and fmodf are exact.                     *)
(***************************************************************************)
\* 1 / sound_speed_factor: the fixed-point scale of current_sample_index
IndexScale == 4
\* loops_remaining given to a voice started with nloops = -1 (line 787)
ForeverLoops == 10000

\* mutant: a slowed speed of one half
playback_speed_half(is_time_slowed) == IF is_time_slowed THEN 2 ELSE IndexScale

\* mutant: slowed time stops the read position
playback_speed_stalled(is_time_slowed) ==
    IF is_time_slowed THEN 0 ELSE IndexScale

\* playback_speed (line 720), in units of 1 / IndexScale frame
playback_speed(is_time_slowed) == IF is_time_slowed THEN 1 ELSE IndexScale

\* std::floor and std::ceil of current_sample_index, as int
floor_index(idx) == idx \div IndexScale
ceil_index(idx) == (idx + IndexScale - 1) \div IndexScale

\* one frame written to the stream: interpolated between two source frames,
\* or between two zeros when loops_remaining is -1 (lines 736-748)
SourceFrame(low, high, at) == [kind |-> "source", low |-> low, high |-> high, at |-> at]
SilentFrame == [kind |-> "silence"]

\* mutant: the ceil index is not wrapped
wrap_high_index_never(high, n) == high

\* "if( high_index == num_source_samples ) high_index = 0" (lines 727-729)
wrap_high_index(high, n) == IF high = n THEN 0 ELSE high

\* mutant: a traversal counts only when the position passes the end
traversal_completed_strict(h, idx, n) ==
    h.loops_remaining >= 0 /\ idx > n * IndexScale

\* the condition of lines 759-760, on the advanced read position idx
traversal_completed(h, idx, n) ==
    h.loops_remaining >= 0 /\ idx >= n * IndexScale

\* the for loop of slowed_time_effect (lines 723-764)
RECURSIVE slowed_time_loop(_, _, _, _, _, _)
slowed_time_loop(h, n, len, speed, dst_index, out) ==
    IF ~(dst_index < len /\ h.current_sample_index < n * IndexScale)
    THEN [h |-> h, out |-> out]
    ELSE
      LET low_index == floor_index(h.current_sample_index)
          high == ceil_index(h.current_sample_index)
          high_index == wrap_high_index(high, n)
          frame == IF h.loops_remaining # -1
                   THEN SourceFrame(low_index, high_index, h.current_sample_index)
                   ELSE SilentFrame
          idx == h.current_sample_index + speed
          wrap == traversal_completed(h, idx, n)
          h2 == IF wrap
                THEN [h EXCEPT !.loops_remaining = @ - 1,
                               !.current_sample_index = idx % (n * IndexScale)]
                ELSE [h EXCEPT !.current_sample_index = idx]
      IN slowed_time_loop(h2, n, len, speed, dst_index + 1, Append(out, frame))

\* mutant: -1 is passed on as it is
initial_loops_raw(n_loops) == n_loops

\* loops_remaining as make_audio sets it (lines 787-788)
initial_loops(n_loops) == IF n_loops = -1 THEN ForeverLoops ELSE n_loops

\* number of frames of a stream that carry source samples
RECURSIVE SourceFrames(_)
SourceFrames(out) ==
    IF out = <<>> THEN 0
    ELSE (IF Head(out).kind = "source" THEN 1 ELSE 0) + SourceFrames(Tail(out))

\* sound_effect_handler::make_audio (lines 779-825) for one voice: the
\* handler is created; the mixer either starts the channel and registers
\* the effect, or one of the two fails and on_finish destroys the handler.
\* The mixer refuses a chunk without frames, so a playing voice has at
\* least one.
make_audio(frames, n_loops, started) ==
    /\ voice = "None"
    /\ num_source_samples' = frames
    /\ nloops' = n_loops
    /\ handler' = [current_sample_index |-> 0,
                   loops_remaining |-> initial_loops(n_loops)]
    /\ voice' = IF started /\ frames > 0 THEN "Playing" ELSE "Finished"
    /\ UNCHANGED <<stream_len, stream, halt_requested, played>>
    /\ UNCHANGED <<resolverVars, engineVars, volumeVars, cacheVars, musicVars, pitchVars, packVars, playVars>>

\* sound_effect_handler::slowed_time_effect (lines 709-775), called by the
\* mixer for a playing channel with a stream of len frames; the mixer hands
\* an effect at most one pass over the chunk per call.  Mix_HaltChannel
\* stops the channel and runs on_finish before it returns.
slowed_time_effect(len, is_time_slowed) ==
    /\ voice = "Playing"
    /\ LET speed == playback_speed(is_time_slowed)
           r == slowed_time_loop(handler, num_source_samples, len, speed, 0, <<>>)
       IN /\ handler' = r.h
          /\ stream_len' = len
          /\ stream' = r.out
          /\ played' = played + speed * SourceFrames(r.out)
          /\ halt_requested' = (r.h.loops_remaining < 0)
          /\ voice' = IF r.h.loops_remaining < 0 THEN "Finished" ELSE "Playing"
    /\ UNCHANGED <<num_source_samples, nloops>>
    /\ UNCHANGED <<resolverVars, engineVars, volumeVars, cacheVars, musicVars, pitchVars, packVars, playVars>>

\* the channel is halted from outside the callback (forced halt, channel
\* reuse, shutdown); the mixer runs on_finish
halt_channel ==
    /\ voice = "Playing"
    /\ voice' = "Finished"
    /\ UNCHANGED <<handler, num_source_samples, nloops, stream_len, stream,
                   halt_requested, played>>
    /\ UNCHANGED <<resolverVars, engineVars, volumeVars, cacheVars, musicVars, pitchVars, packVars, playVars>>

InitVoice ==
    /\ ResolverIdle /\ VoiceIdle /\ EngineIdle /\ VolumeIdle /\ CacheIdle
    /\ MusicIdle /\ PitchIdle /\ PackIdle /\ PlayIdle

\* voices with a finite number of loops
NextVoice ==
    \/ \E frames \in 0..MaxSource, n_loops \in 0..MaxLoops, started \in BOOLEAN :
          make_audio(frames, n_loops, started)
    \/ \E len \in 1..num_source_samples, is_time_slowed \in BOOLEAN :
          slowed_time_effect(len, is_time_slowed)
    \/ halt_channel

SpecVoice == InitVoice /\ [][NextVoice]_vars

\* voices started with nloops = -1
NextForever ==
    \/ \E frames \in 0..MaxForeverSource, started \in BOOLEAN :
          make_audio(frames, -1, started)
    \/ \E len \in 1..num_source_samples, is_time_slowed \in BOOLEAN :
          slowed_time_effect(len, is_time_slowed)
    \/ halt_channel

SpecForever == InitVoice /\ [][NextForever]_vars

\* the mixer calls the effect of a playing channel
mixer_callback ==
    \E len \in 1..num_source_samples, is_time_slowed \in BOOLEAN :
        slowed_time_effect(len, is_time_slowed)

\* voices with a finite number of loops that nothing halts from outside
NextUnhalted ==
    \/ \E frames \in 0..MaxSource, n_loops \in 0..MaxLoops, started \in BOOLEAN :
          make_audio(frames, n_loops, started)
    \/ mixer_callback

\* the mixer keeps calling the effect of a channel that plays
SpecUnhalted == InitVoice /\ [][NextUnhalted]_vars /\ WF_vars(mixer_callback)

\* the loops arguments below -1 that a caller of
\* play_ambient_variant_sound can pass
NegativeLoops == {-3, -2}

\* slowed_time_effect with its assertion on loops_remaining (line 717):
\* with assertions compiled in, a negative counter at entry aborts
checked_callback(len, is_time_slowed, asserting) ==
    IF asserting /\ handler.loops_remaining < 0
    THEN /\ voice = "Playing"
         /\ voice' = "Aborted"
         /\ UNCHANGED <<handler, num_source_samples, nloops, stream_len,
                        stream, halt_requested, played>>
         /\ UNCHANGED <<resolverVars, engineVars, volumeVars, cacheVars, musicVars, pitchVars, packVars, playVars>>
    ELSE slowed_time_effect(len, is_time_slowed)

\* voices started with any loops argument but -1
NextNegative ==
    \/ \E frames \in 0..MaxSource, n_loops \in NegativeLoops \cup (0..MaxLoops),
          started \in BOOLEAN :
          make_audio(frames, n_loops, started)
    \/ \E len \in 1..num_source_samples, is_time_slowed \in BOOLEAN,
          asserting \in BOOLEAN :
          checked_callback(len, is_time_slowed, asserting)
    \/ halt_channel

SpecNegative == InitVoice /\ [][NextNegative]_vars

\* slowed_time_effect (lines 709-775) called once more for a voice whose
\* loops_remaining has gone negative and whose channel it has asked to
\* halt.  With assertions compiled in, line 717 aborts; without them the
\* loop runs as long as the read position is inside the source, writes
\* silence (lines 739-747), advances the position, and Mix_HaltChannel is
\* called again.
late_callback(len, is_time_slowed, asserting) ==
    /\ voice = "Finished" /\ halt_requested
    /\ IF asserting
       THEN /\ voice' = "Aborted"
            /\ UNCHANGED <<handler, stream_len, stream>>
       ELSE LET r == slowed_time_loop(handler, num_source_samples, len,
                                      playback_speed(is_time_slowed), 0, <<>>)
            IN /\ handler' = r.h
               /\ stream_len' = len
               /\ stream' = r.out
               /\ voice' = "Finished"
    /\ UNCHANGED <<num_source_samples, nloops, halt_requested, played>>
    /\ UNCHANGED <<resolverVars, engineVars, volumeVars, cacheVars, musicVars, pitchVars, packVars, playVars>>

\* one voice, with callbacks that arrive after the halt was requested
NextLate ==
    \/ NextVoice
    \/ \E len \in 1..num_source_samples, is_time_slowed \in BOOLEAN,
          asserting \in BOOLEAN : late_callback(len, is_time_slowed, asserting)

SpecLate == InitVoice /\ [][NextLate]_vars

(***************************************************************************)
(* The mixer with its channels, the main thread and the audio thread.      *)
(* Every Mix_* call and every run of the effect callbacks holds the        *)
(* mixer's lock, so each is one step; the steps of the two threads         *)
(* interleave.                                                             *)
(***************************************************************************)
\* channel::any, and the channel Mix_PlayChannel returns when it fails
channel_any == -1

\* the mixer's channels: two of those init_sound allocates (line 328)
ChannelIds == {0, 1}

\* lengths of a chunk in frames (none when a file could not be read or the
\* pitch shift leaves nothing), and numbers of loops asked for
ChunkFrames == {0, 1, 2}
EngineLoops == {0, 1}

\* the chunk of the resource table in chunks
TableChunk == 1

\* the state the mixer calls work on
Mixer == [handlers |-> handlers, chunks |-> chunks, channels |-> channels,
          ended_by |-> ended_by]

\* mutant: the destructor does not free the chunk
destroy_handler_keeps_chunk(M, h) ==
    [M EXCEPT !.handlers[h].deleted = @ + 1,
              !.handlers[h].current_sample_index = 0,
              !.handlers[h].loops_remaining = 0]

\* "delete handler" with ~sound_effect_handler (lines 693-698), which frees
\* the chunk the handler owns; the playback position of a destroyed handler
\* is never read again and is cleared
destroy_handler(M, h) ==
    LET M1 == [M EXCEPT !.handlers[h].deleted = @ + 1,
                        !.handlers[h].current_sample_index = 0,
                        !.handlers[h].loops_remaining = 0]
    IN IF M.handlers[h].owns_audio
       THEN [M1 EXCEPT !.chunks[M.handlers[h].audio_src].frees = @ + 1]
       ELSE M1

\* sound_effect_handler::on_finish (lines 701-705); by records the caller
on_finish(M, h, by) ==
    [destroy_handler(M, h) EXCEPT !.ended_by[h] = Append(@, by)]

\* the mixer removes all effects of a channel and runs their done callbacks
RECURSIVE remove_all_effects(_, _, _)
remove_all_effects(M, c, by) ==
    IF M.channels[c].effects = <<>> THEN M
    ELSE LET h == Head(M.channels[c].effects)
             M1 == [M EXCEPT !.channels[c].effects = Tail(@)]
         IN remove_all_effects(on_finish(M1, h, by), c, by)

\* Mix_HaltChannel(c): a playing channel is stopped and its effects removed
Mix_HaltChannel(M, c, by) ==
    IF M.channels[c].playing
    THEN [remove_all_effects(M, c, by) EXCEPT !.channels[c].playing = FALSE]
    ELSE M

\* the channel Mix_PlayChannel / Mix_FadeInChannel picks: the one asked
\* for, or the first that is not playing; -1 when the mixer is closed, the
\* chunk has no frames or no channel is free
pick_channel(M, open, which, chunk) ==
    IF ~open \/ M.chunks[chunk].frames = 0 THEN -1
    ELSE IF which # channel_any THEN which
    ELSE LET free == {c \in ChannelIds : ~M.channels[c].playing}
         IN IF free = {} THEN -1
            ELSE CHOOSE c \in free : \A d \in free : c <= d

\* Mix_PlayChannel(which, chunk, -1): what was playing on the channel is
\* stopped first
Mix_PlayChannel(M, c, chunk) ==
    [Mix_HaltChannel(M, c, "reuse") EXCEPT !.channels[c].playing = TRUE,
                                           !.channels[c].chunk = chunk]

\* Mix_RegisterEffect(channel, slowed_time_effect, on_finish, handler)
Mix_RegisterEffect(M, c, h) ==
    [M EXCEPT !.channels[c].effects = Append(@, h)]

\* Mix_FreeChunk: channels playing the chunk are stopped, their effects stay
Mix_FreeChunk(M, chunk) ==
    [M EXCEPT !.chunks[chunk].frees = @ + 1,
              !.channels = [c \in ChannelIds |->
                               IF M.channels[c].chunk = chunk
                               THEN [M.channels[c] EXCEPT !.playing = FALSE]
                               ELSE M.channels[c]]]

\* Mix_CloseAudio: the effects of every channel are removed, every channel
\* is halted
RECURSIVE unregister_all_channels(_, _)
unregister_all_channels(M, c) ==
    IF c \notin ChannelIds THEN M
    ELSE LET M1 == remove_all_effects(M, c, "shutdown")
         IN unregister_all_channels([M1 EXCEPT !.channels[c].playing = FALSE], c + 1)

SetMixer(M) ==
    /\ handlers' = M.handlers
    /\ chunks' = M.chunks
    /\ channels' = M.channels
    /\ ended_by' = M.ended_by

\* mutant: make_audio never cleans up
cleanup_needed_never(failed) == FALSE

\* "if( failed ) on_finish( -1, handler )" (lines 820-822)
cleanup_needed(failed) == failed

\* the chunk make_audio is given and the handler it creates (lines
\* 783-788): a request goes on to make_audio only on a channel that does
\* not play (line 958)
new_handler(audioChannel, is_pitched, frames, n_loops) ==
    /\ main.pc = "idle"
    /\ Len(handlers) < MaxVoices
    /\ audioChannel # channel_any => ~channels[audioChannel].playing
    /\ LET effect_to_play == IF is_pitched THEN Len(chunks) + 1 ELSE TableChunk
           h == Len(handlers) + 1
       IN /\ chunks' = IF is_pitched
                       THEN Append(chunks, [owner |-> "voice", frames |-> frames,
                                            frees |-> 0])
                       ELSE chunks
          /\ handlers' = Append(handlers,
                            [audio_src |-> effect_to_play, active |-> TRUE,
                             owns_audio |-> is_pitched,
                             current_sample_index |-> 0,
                             loops_remaining |-> initial_loops(n_loops),
                             deleted |-> 0])
          /\ ended_by' = Append(ended_by, <<>>)
          /\ main' = [pc |-> "make_audio_play", handler |-> h,
                      audioChannel |-> audioChannel]
    /\ UNCHANGED <<audio_open, channels>>

\* play_variant_sound (lines 876-945) and play_ambient_variant_sound (lines
\* 947-988) up to the first mixer call of make_audio (lines 783-788): the
\* chunk is the table's own, or a new one made by do_pitch_shift, which the
\* handler owns; the handler is created.
\* A request returns before make_audio when no effect is found, which is so
\* after shutdown_sound has emptied the table.  The volume make_audio sets
\* on the chunk (lines 790-791) is followed in play_variant_sound and
\* play_ambient_variant_sound below.
play_sound(audioChannel, is_pitched, frames, n_loops) ==
    /\ sound_init_success /\ audio_open
    /\ new_handler(audioChannel, is_pitched, frames, n_loops)
    /\ UNCHANGED <<resolverVars, voiceVars, volumeVars, cacheVars, musicVars,
                   pitchVars, packVars, playVars>>

\* make_audio, lines 795-800: Mix_PlayChannel or Mix_FadeInChannel
make_audio_play ==
    /\ main.pc = "make_audio_play"
    /\ LET chunk == handlers[main.handler].audio_src
           channel == pick_channel(Mixer, audio_open, main.audioChannel, chunk)
       IN IF channel = -1
          THEN /\ main' = [pc |-> "make_audio_end", handler |-> main.handler,
                           channel |-> channel, failed |-> TRUE]
               /\ UNCHANGED <<handlers, chunks, channels, ended_by>>
          ELSE /\ main' = [pc |-> "make_audio_register", handler |-> main.handler,
                           channel |-> channel]
               /\ SetMixer(Mix_PlayChannel(Mixer, channel, chunk))
    /\ UNCHANGED audio_open
    /\ UNCHANGED <<resolverVars, voiceVars, volumeVars, cacheVars, musicVars, pitchVars, packVars, playVars>>

\* make_audio, lines 801-813: Mix_RegisterEffect, which may fail; then the
\* channel is halted at once
make_audio_register(registered) ==
    /\ main.pc = "make_audio_register"
    /\ IF registered
       THEN SetMixer(Mix_RegisterEffect(Mixer, main.channel, main.handler))
       ELSE SetMixer(Mix_HaltChannel(Mixer, main.channel, "halt"))
    /\ main' = [pc |-> "make_audio_end", handler |-> main.handler,
                channel |-> main.channel, failed |-> ~registered]
    /\ UNCHANGED audio_open
    /\ UNCHANGED <<resolverVars, voiceVars, volumeVars, cacheVars, musicVars, pitchVars, packVars, playVars>>

\* make_audio, lines 820-824
make_audio_cleanup ==
    /\ main.pc = "make_audio_end"
    /\ IF cleanup_needed(main.failed)
       THEN SetMixer(on_finish(Mixer, main.handler, "make_audio"))
       ELSE UNCHANGED <<handlers, chunks, channels, ended_by>>
    /\ main' = MainIdle
    /\ UNCHANGED audio_open

\* make_audio returns
make_audio_end ==
    /\ make_audio_cleanup
    /\ UNCHANGED <<resolverVars, voiceVars, volumeVars, cacheVars, musicVars,
                   pitchVars, packVars, playVars>>

\* the audio thread mixes channel c: the mixer calls slowed_time_effect
\* (lines 709-775) of the registered handler with a stream of len frames;
\* when no loop remains the callback halts its own channel
mix_channel(c, len, is_time_slowed) ==
    /\ audio_open /\ main.pc # "abort"
    /\ channels[c].playing /\ channels[c].effects # <<>>
    /\ LET h == Head(channels[c].effects)
           n == chunks[handlers[h].audio_src].frames
           r == slowed_time_loop(handlers[h], n, len,
                                 playback_speed(is_time_slowed), 0, <<>>)
           M == [Mixer EXCEPT !.handlers[h] = r.h]
       IN /\ len \in 1..n
          /\ IF r.h.loops_remaining < 0
             THEN SetMixer(Mix_HaltChannel(M, c, "callback"))
             ELSE SetMixer(M)
    /\ UNCHANGED <<audio_open, main>>
    /\ UNCHANGED <<resolverVars, voiceVars, volumeVars, cacheVars, musicVars, pitchVars, packVars, playVars>>

\* the main thread halts a channel (the callers are not part of this file)
forced_halt(c) ==
    /\ main.pc = "idle" /\ audio_open
    /\ channels[c].playing
    /\ SetMixer(Mix_HaltChannel(Mixer, c, "halt"))
    /\ UNCHANGED <<audio_open, main>>
    /\ UNCHANGED <<resolverVars, voiceVars, volumeVars, cacheVars, musicVars, pitchVars, packVars, playVars>>

\* shutdown_sound, lines 355-358: the resource table is cleared, which
\* frees its chunks
shutdown_sound_clear ==
    /\ main.pc = "idle" /\ audio_open
    /\ SetMixer(Mix_FreeChunk(Mixer, TableChunk))
    /\ main' = [pc |-> "shutdown_close"]
    /\ UNCHANGED audio_open
    /\ UNCHANGED <<resolverVars, voiceVars, volumeVars, cacheVars, musicVars, pitchVars, packVars, playVars>>

\* shutdown_sound, line 360: Mix_CloseAudio
shutdown_sound_close ==
    /\ main.pc = "shutdown_close"
    /\ SetMixer(unregister_all_channels(Mixer, 0))
    /\ audio_open' = FALSE
    /\ main' = MainIdle
    /\ UNCHANGED <<resolverVars, voiceVars, volumeVars, cacheVars, musicVars, pitchVars, packVars, playVars>>

\* after init_sound and the loading of one resource, whose chunk has no
\* frames when the file could not be read (make_null_chunk)
InitEngine ==
    /\ effects = EmptyMap /\ resource = <<>> /\ unique_paths = EmptyMap
    /\ sound_init_success = TRUE
    /\ loads = 0 /\ inserted = EmptyMap /\ rejected = 0
    /\ query = NoQuery /\ found = Nullptr
    /\ VoiceIdle /\ VolumeIdle /\ CacheIdle /\ MusicIdle /\ PitchIdle /\ PackIdle /\ PlayIdle
    /\ audio_open = TRUE
    /\ \E frames \in ChunkFrames :
          chunks = <<[owner |-> "table", frames |-> frames, frees |-> 0]>>
    /\ handlers = <<>>
    /\ channels = [c \in ChannelIds |->
                      [playing |-> FALSE, chunk |-> 0, effects |-> <<>>]]
    /\ main = MainIdle
    /\ ended_by = <<>>

NextEngine ==
    \/ \E is_pitched \in BOOLEAN, frames \in ChunkFrames :
          play_sound(channel_any, is_pitched, frames, 0)
    \/ \E audioChannel \in ChannelIds, is_pitched \in BOOLEAN,
          frames \in ChunkFrames, n_loops \in EngineLoops :
          play_sound(audioChannel, is_pitched, frames, n_loops)
    \/ make_audio_play
    \/ \E registered \in BOOLEAN : make_audio_register(registered)
    \/ make_audio_end
    \/ \E c \in ChannelIds, len \in ChunkFrames, is_time_slowed \in BOOLEAN :
          mix_channel(c, len, is_time_slowed)
    \/ \E c \in ChannelIds : forced_halt(c)
    \/ shutdown_sound_clear
    \/ shutdown_sound_close

SpecEngine == InitEngine /\ [][NextEngine]_vars

\* on_finish (lines 701-705) called once more for a handler it has already
\* destroyed.  The assertion of line 703 reads the freed handler and
\* "delete handler" deletes it a second time, which is undefined: the
\* process is aborted (by the assertion or by the allocator), or the
\* destructor runs again and frees an owned chunk again.
on_finish_again(h, aborts) ==
    /\ main.pc = "idle"
    /\ h \in DOMAIN handlers
    /\ handlers[h].deleted = 1
    /\ IF aborts
       THEN /\ main' = [pc |-> "abort"]
            /\ UNCHANGED <<handlers, chunks, channels, ended_by>>
       ELSE /\ SetMixer(on_finish(Mixer, h, "again"))
            /\ UNCHANGED main
    /\ UNCHANGED audio_open
    /\ UNCHANGED <<resolverVars, voiceVars, volumeVars, cacheVars, musicVars, pitchVars, packVars, playVars>>

\* the mixer with a completion callback that is delivered twice
NextTeardown ==
    \/ NextEngine
    \/ \E h \in 1..MaxVoices, aborts \in BOOLEAN : on_finish_again(h, aborts)

SpecTeardown == InitEngine /\ [][NextTeardown]_vars

(***************************************************************************)
(* The volume of a play request (lines 790-791 and 978-982).               *)
(***************************************************************************)
\* values of the two volume options, volumes of an effect ("volume" of its
\* record) and volumes of a request
OptionVolumes == {0, 50, 100}
EffectVolumes == {50, 100}
RequestVolumes == {0, 1, 60, 100}

\* mutant: a request is let through whatever its volume
check_sound_any_volume(volume) == sound_init_success /\ sound_enabled
\* check_sound (lines 304-307)
check_sound(volume) == sound_init_success /\ sound_enabled /\ volume > 0

\* the argument of Mix_VolumeChunk in make_audio (lines 790-791)
make_audio_volume(effect_volume, volume) ==
    (effect_volume * SOUND_EFFECT_VOLUME * volume) \div (100 * 100)

\* the volume play_ambient_variant_sound passes to make_audio (lines 978-979)
ambient_volume(effect_volume, volume) ==
    (effect_volume * AMBIENT_SOUND_VOLUME * volume) \div (100 * 100)

\* Mix_VolumeChunk: the new volume field of the chunk
Mix_VolumeChunk(old, volume) ==
    IF volume < 0 THEN old
    ELSE IF volume > MIX_MAX_VOLUME THEN MIX_MAX_VOLUME
    ELSE volume

\* what make_audio hands to Mix_VolumeChunk, and the table's chunk after:
\* a pitched request works on the copy do_pitch_shift made
hand_volume(ambient, effect_volume, volume, is_pitched, to_make_audio) ==
    LET handed == make_audio_volume(effect_volume, to_make_audio)
    IN /\ request' = [asked |-> TRUE, ambient |-> ambient,
                      effect_volume |-> effect_volume, volume |-> volume,
                      is_pitched |-> is_pitched, before |-> chunk_volume,
                      sfx_option |-> SOUND_EFFECT_VOLUME,
                      ambient_option |-> AMBIENT_SOUND_VOLUME,
                      handed |-> handed]
       /\ chunk_volume' = IF is_pitched THEN chunk_volume
                          ELSE Mix_VolumeChunk(chunk_volume, handed)

\* play_variant_sound (lines 876-945) as far as the volume goes
play_variant_sound(effect_volume, volume, is_pitched) ==
    /\ check_sound(volume)
    /\ hand_volume(FALSE, effect_volume, volume, is_pitched, volume)
    /\ UNCHANGED <<SOUND_EFFECT_VOLUME, AMBIENT_SOUND_VOLUME>>
    /\ UNCHANGED <<resolverVars, voiceVars, engineVars, cacheVars, musicVars, pitchVars, packVars, playVars>>

\* play_ambient_variant_sound (lines 947-988) as far as the volume goes
play_ambient_variant_sound(effect_volume, volume, is_pitched) ==
    /\ check_sound(volume)
    /\ hand_volume(TRUE, effect_volume, volume, is_pitched,
                   ambient_volume(effect_volume, volume))
    /\ UNCHANGED <<SOUND_EFFECT_VOLUME, AMBIENT_SOUND_VOLUME>>
    /\ UNCHANGED <<resolverVars, voiceVars, engineVars, cacheVars, musicVars, pitchVars, packVars, playVars>>

\* the user changes the two options
set_volume_options(sfx, ambient) ==
    /\ SOUND_EFFECT_VOLUME' = sfx
    /\ AMBIENT_SOUND_VOLUME' = ambient
    /\ UNCHANGED <<chunk_volume, request>>
    /\ UNCHANGED <<resolverVars, voiceVars, engineVars, cacheVars, musicVars, pitchVars, packVars, playVars>>

\* after init_sound, with one resource loaded
InitVolume ==
    /\ effects = EmptyMap /\ resource = <<>> /\ unique_paths = EmptyMap
    /\ sound_init_success = TRUE
    /\ loads = 0 /\ inserted = EmptyMap /\ rejected = 0
    /\ query = NoQuery /\ found = Nullptr
    /\ VoiceIdle /\ EngineIdle /\ VolumeIdle /\ CacheIdle /\ MusicIdle /\ PitchIdle /\ PackIdle /\ PlayIdle

NextVolume ==
    \/ \E effect_volume \in EffectVolumes, volume \in RequestVolumes,
          is_pitched \in BOOLEAN :
          play_variant_sound(effect_volume, volume, is_pitched)
    \/ \E effect_volume \in EffectVolumes, volume \in RequestVolumes,
          is_pitched \in BOOLEAN :
          play_ambient_variant_sound(effect_volume, volume, is_pitched)
    \/ \E sfx \in OptionVolumes, ambient \in OptionVolumes :
          set_volume_options(sfx, ambient)

SpecVolume == InitVolume /\ [][NextVolume]_vars

(***************************************************************************)
(* The cache of decoded chunks (lines 508-542).                            *)
(***************************************************************************)
\* the files that are loaded, and the frames Mix_LoadWAV decodes from a
\* file; a file that cannot be decoded gives none
ResourceFiles == {<<"a.ogg">>, <<"b.ogg", "a.ogg">>, <<"c.ogg">>}
DecodedFrames == {0, 2}

\* mutant: the cached chunk is not looked at
chunk_cached_never(entry) == FALSE

\* "if( !resource.chunk )" (line 537), negated
chunk_cached(entry) == entry.chunk.loaded

\* load_chunk (lines 520-529): the decoded chunk, or the empty chunk of
\* make_null_chunk (lines 508-518) when Mix_LoadWAV returns nullptr; serial
\* tells one allocation from another
load_chunk(frames, serial) ==
    [loaded |-> TRUE, frames |-> frames, serial |-> serial]

\* the resource table after get_sfx_resource( resource_id ); the vector is
\* indexed from 0
resource_after(res, resource_id, frames, serial) ==
    IF chunk_cached(res[resource_id + 1]) THEN res
    ELSE [res EXCEPT ![resource_id + 1].chunk = load_chunk(frames, serial)]

\* get_sfx_resource (lines 534-542) for an id of the table
get_sfx_resource(resource_id, frames) ==
    /\ resource_id \in 0..(Len(resource) - 1)
    /\ LET after == resource_after(resource, resource_id, frames, Len(decoded) + 1)
       IN /\ resource' = after
          /\ decoded' = IF chunk_cached(resource[resource_id + 1]) THEN decoded
                        ELSE Append(decoded, resource_id)
          /\ got' = [asked |-> TRUE, resource_id |-> resource_id,
                     before |-> resource, after |-> after,
                     chunk |-> after[resource_id + 1].chunk]
    /\ UNCHANGED <<effects, unique_paths, sound_init_success, loads, inserted,
                   rejected, query, found>>
    /\ UNCHANGED <<voiceVars, engineVars, volumeVars, musicVars, pitchVars, packVars, playVars>>

\* records are loaded and chunks are asked for
NextCache ==
    \/ \E files \in ResourceFiles :
          load_sound_effects("fire", <<"default">>, "", {}, {}, 100, files)
    \/ \E resource_id \in 0..(MaxLoads + 1), frames \in DecodedFrames :
          get_sfx_resource(resource_id, frames)

SpecCache == InitVolume /\ [][NextCache]_vars

(***************************************************************************)
(* Background music (lines 365-503 and 631-651): one playlist is current,  *)
(* the mixer calls musicFinished when a track ends.  Each operation is     *)
(* taken whole; the music state is passed along as a record, and an        *)
(* operation yields the set of states it can end in.                       *)
(***************************************************************************)
\* the longest "files" array of a playlist
MaxEntries == 2

\* the "volume" of the file k of a playlist: no two files have the same
TrackVolume(k) == 100 - 20 * k

\* the "volume" values of playlist entries
TrackVolumes == {TrackVolume(k) : k \in 1..MaxEntries}

\* the option MUSIC_VOLUME
MUSIC_VOLUME == 100

\* what the game asks for: a playlist id, or none
MusicIds == PlaylistNames \cup {""}

\* the "files" array of a playlist of n files: the k-th is the file k
EntriesOf(n) == [k \in 1..n |-> [file |-> k, volume |-> TrackVolume(k)]]

PlaylistEntries == {EntriesOf(n) : n \in 0..MaxEntries}

\* what reading behind the end of entries can yield
GarbageEntries == {[file |-> 0, volume |-> v] : v \in TrackVolumes}

\* every order of the indexes 0..n-1
Orders(n) ==
    {o \in [1..n -> 0..(n - 1)] : \A i, j \in 1..n : o[i] = o[j] => i = j}

\* the order 0, 1, .., n-1
IdentityOrder(n) == [i \in 1..n |-> i - 1]

\* the music state as one record
Music ==
    [current_music |-> current_music,
     current_music_track_volume |-> current_music_track_volume,
     current_playlist |-> current_playlist,
     current_playlist_at |-> current_playlist_at,
     absolute_playlist_at |-> absolute_playlist_at,
     playlist_indexes |-> playlist_indexes,
     music_playing |-> music_playing,
     music_volume |-> music_volume,
     music_pc |-> music_pc]

SetMusic(M) ==
    /\ current_music' = M.current_music
    /\ current_music_track_volume' = M.current_music_track_volume
    /\ current_playlist' = M.current_playlist
    /\ current_playlist_at' = M.current_playlist_at
    /\ absolute_playlist_at' = M.absolute_playlist_at
    /\ playlist_indexes' = M.playlist_indexes
    /\ music_playing' = M.music_playing
    /\ music_volume' = M.music_volume
    /\ music_pc' = M.music_pc

\* std::map::find on playlists
find_playlist(playlist) ==
    IF playlist \in PlaylistNames THEN playlists[playlist] ELSE NoPlaylist

\* play_music_file (lines 365-388): nothing without check_sound; the file
\* may fail to load, and the loaded music may fail to start
play_music_file(M, filename, volume) ==
    IF ~check_sound(volume) THEN {M}
    ELSE LET file == [file |-> filename, volume |-> volume]
             loaded == [M EXCEPT !.current_music = file,
                                 !.music_volume =
                                     (volume * MUSIC_VOLUME) \div 100]
         IN {[M EXCEPT !.current_music = NoMusic],
             loaded,
             [loaded EXCEPT !.music_playing = file]}

\* stop_music whose play order survives
stop_music_keeps_order(M) ==
    [M EXCEPT !.current_music = NoMusic,
              !.music_playing = NoMusic,
              !.current_playlist = "",
              !.current_playlist_at = 0,
              !.absolute_playlist_at = 0]

\* stop_music (lines 469-483)
stop_music(M) ==
    [M EXCEPT !.current_music = NoMusic,
              !.music_playing = NoMusic,
              !.playlist_indexes = <<>>,
              !.current_playlist = "",
              !.current_playlist_at = 0,
              !.absolute_playlist_at = 0]

\* the end of musicFinished that leaves current_music_track_volume alone
\* (lines 425-428), and the end of play_music that sets it (lines 462-466):
\* at() throws behind the end of the play order, entries[] reads whatever
\* lies behind the end of the entries
start_track(M, list, set_volume) ==
    IF M.absolute_playlist_at >= Len(M.playlist_indexes)
    THEN {[M EXCEPT !.music_pc = "terminated"]}
    ELSE LET at == M.playlist_indexes[M.absolute_playlist_at + 1]
             At == [M EXCEPT !.current_playlist_at = at]
             nexts == IF at < Len(list.entries) THEN {list.entries[at + 1]}
                      ELSE GarbageEntries
         IN UNION {play_music_file(
                       IF set_volume
                       THEN [At EXCEPT !.current_music_track_volume =
                                           next.volume]
                       ELSE At,
                       next.file, next.volume) : next \in nexts}

\* play_music (lines 431-467)
play_music(M, playlist) ==
    IF playlist = M.current_playlist THEN {M}
    ELSE LET S == stop_music(M)
             list == find_playlist(playlist)
             n == Len(list.entries)
         IN IF ~list.loaded THEN {S}
            ELSE IF list.entries = <<>> THEN {S}
            ELSE UNION {start_track(
                            [S EXCEPT !.playlist_indexes = @ \o order,
                                      !.current_playlist = playlist],
                            list, TRUE) :
                        order \in IF list.shuffle THEN Orders(n)
                                  ELSE {IdentityOrder(n)}}

\* musicFinished (lines 391-429)
musicFinished(M) ==
    LET F == [M EXCEPT !.music_playing = NoMusic, !.current_music = NoMusic]
        new_playlist == music_id
        list == find_playlist(F.current_playlist)
        next_at == IF F.absolute_playlist_at + 1 >= Len(list.entries) THEN 0
                   ELSE F.absolute_playlist_at + 1
    IN IF F.current_playlist # new_playlist THEN play_music(F, new_playlist)
       ELSE IF ~list.loaded THEN {F}
       ELSE IF list.entries = <<>> THEN {F}
       ELSE start_track([F EXCEPT !.absolute_playlist_at = next_at],
                        list, FALSE)

\* the game calls play_music
call_play_music(playlist) ==
    /\ music_pc = "running"
    /\ \E M \in play_music(Music, playlist) : SetMusic(M)
    /\ music_op' = [op |-> "play_music", playlist |-> playlist,
                   from |-> current_playlist]
    /\ UNCHANGED <<playlists, sound_enabled, music_id>>
    /\ UNCHANGED <<resolverVars, voiceVars, engineVars, volumeVars, cacheVars, pitchVars, packVars, playVars>>

\* the game calls stop_music
call_stop_music ==
    /\ music_pc = "running"
    /\ SetMusic(stop_music(Music))
    /\ music_op' = [op |-> "other"]
    /\ UNCHANGED <<playlists, sound_enabled, music_id>>
    /\ UNCHANGED <<resolverVars, voiceVars, engineVars, volumeVars, cacheVars, pitchVars, packVars, playVars>>

\* the track that plays ends, and the mixer calls musicFinished
track_end ==
    /\ music_pc = "running"
    /\ music_playing # NoMusic
    /\ \E M \in musicFinished(Music) : SetMusic(M)
    /\ music_op' = [op |-> "other"]
    /\ UNCHANGED <<playlists, sound_enabled, music_id>>
    /\ UNCHANGED <<resolverVars, voiceVars, engineVars, volumeVars, cacheVars, pitchVars, packVars, playVars>>

\* the game asks for another playlist (music::get_music_id_string)
set_music_id(id) ==
    /\ music_pc = "running"
    /\ music_id # id
    /\ music_id' = id
    /\ music_op' = [op |-> "other"]
    /\ UNCHANGED <<playlists, current_music, current_music_track_volume,
                   current_playlist, current_playlist_at,
                   absolute_playlist_at, playlist_indexes, sound_enabled,
                   music_playing, music_volume, music_pc>>
    /\ UNCHANGED <<resolverVars, voiceVars, engineVars, volumeVars, cacheVars, pitchVars, packVars, playVars>>

\* load_playlist (lines 631-651) for one element of "playlists"
load_playlist(playlist_id, shuffle, entries) ==
    /\ music_pc = "running"
    /\ playlists' =
           IF ~sound_init_success THEN playlists
           ELSE [playlists EXCEPT ![playlist_id] =
                    [loaded |-> TRUE, entries |-> entries,
                     shuffle |-> shuffle]]
    /\ music_op' = [op |-> "other"]
    /\ UNCHANGED <<current_music, current_music_track_volume,
                   current_playlist, current_playlist_at,
                   absolute_playlist_at, playlist_indexes, sound_enabled,
                   music_id, music_playing, music_volume, music_pc>>
    /\ UNCHANGED <<resolverVars, voiceVars, engineVars, volumeVars, cacheVars, pitchVars, packVars, playVars>>

\* update_music_volume (lines 485-503) with the option SOUND_ENABLED;
\* music::deactivate_music_id_all leaves no playlist asked for
update_music_volume(SOUND_ENABLED) ==
    /\ music_pc = "running"
    /\ sound_enabled' = SOUND_ENABLED
    /\ LET V == [Music EXCEPT !.music_volume =
                     (current_music_track_volume * MUSIC_VOLUME) \div 100]
       IN IF ~SOUND_ENABLED
          THEN SetMusic(stop_music(V)) /\ music_id' = ""
          ELSE IF ~sound_enabled
          THEN /\ \E M \in play_music(V, music_id) : SetMusic(M)
               /\ UNCHANGED music_id
          ELSE SetMusic(V) /\ UNCHANGED music_id
    /\ music_op' = [op |-> "other"]
    /\ UNCHANGED playlists
    /\ UNCHANGED <<resolverVars, voiceVars, engineVars, volumeVars, cacheVars, pitchVars, packVars, playVars>>

\* after init_sound
InitMusic ==
    /\ effects = EmptyMap /\ resource = <<>> /\ unique_paths = EmptyMap
    /\ sound_init_success = TRUE
    /\ loads = 0 /\ inserted = EmptyMap /\ rejected = 0
    /\ query = NoQuery /\ found = Nullptr
    /\ VoiceIdle /\ EngineIdle /\ VolumeIdle /\ CacheIdle /\ MusicIdle /\ PitchIdle /\ PackIdle /\ PlayIdle

NextMusic ==
    \/ \E playlist \in MusicIds : call_play_music(playlist)
    \/ call_stop_music
    \/ track_end
    \/ \E id \in MusicIds : set_music_id(id)
    \/ \E playlist_id \in PlaylistNames, shuffle \in BOOLEAN,
          entries \in PlaylistEntries :
          load_playlist(playlist_id, shuffle, entries)
    \/ \E SOUND_ENABLED \in BOOLEAN : update_music_volume(SOUND_ENABLED)

SpecMusic == InitMusic /\ [][NextMusic]_vars

(***************************************************************************)
(* do_pitch_shift (lines 833-874) on chunks of 16-bit stereo frames.  The  *)
(* pitch is a fraction; the factors taken are floats without rounding.     *)
(***************************************************************************)
\* the longest source chunk, in frames
MaxFrames == 3

\* the sample values of a frame
Samples == {-3, 2}

PitchFrames == Samples \X Samples

PitchSources == UNION {[1..n -> PitchFrames] : n \in 0..MaxFrames}

\* the pitch factors 1.0, 0.5 and 2.0
PitchFactors == {<<1, 1>>, <<1, 2>>, <<2, 1>>}

\* static_cast<Sint16> of a float quotient: towards zero
truncate(a, b) == IF a >= 0 THEN a \div b ELSE -((-a) \div b)

\* the loop of lines 858-863 over one channel: the sum of the samples
\* begin..end, both included
RECURSIVE sum_window(_, _, _, _)
sum_window(s, channel, begin, end) ==
    IF begin > end THEN 0
    ELSE s[begin + 1][channel] + sum_window(s, channel, begin + 1, end)

\* the last source frame of the window of an output frame (lines 851-856)
window_end(s_in, begin, end) ==
    IF end > 0 /\ end >= s_in THEN begin ELSE end

\* do_pitch_shift (lines 833-874): the frames of the new chunk
do_pitch_shift(s, factor) ==
    LET s_in == Len(s)
        s_out == (s_in * factor[1]) \div factor[2]
        \* i / pitch_real with pitch_real = s_out / s_in
        begin(i) == (i * s_in) \div s_out
        end(i) == window_end(s_in, begin(i), ((i + 1) * s_in) \div s_out)
        out(i, channel) ==
            truncate(sum_window(s, channel, begin(i), end(i)),
                     end(i) - begin(i) + 1)
    IN [k \in 1..s_out |-> <<out(k - 1, 1), out(k - 1, 2)>>]

\* a play request shifts the pitch of its chunk
call_do_pitch_shift ==
    /\ pitch_result = NotShifted
    /\ pitch_result' = [done |-> TRUE,
                        frames |-> do_pitch_shift(pitch_s, pitch)]
    /\ UNCHANGED <<pitch_s, pitch>>
    /\ UNCHANGED <<resolverVars, voiceVars, engineVars, volumeVars, cacheVars, musicVars, packVars, playVars>>

\* a decoded chunk and a pitch factor
InitPitch ==
    /\ ResolverIdle /\ VoiceIdle /\ EngineIdle /\ VolumeIdle /\ CacheIdle
    /\ MusicIdle /\ PackIdle /\ PlayIdle
    /\ pitch_s \in PitchSources
    /\ pitch \in PitchFactors
    /\ pitch_result = NotShifted

NextPitch == call_do_pitch_shift

SpecPitch == InitPitch /\ [][NextPitch]_vars

(***************************************************************************)
(* Soundpacks: load_soundset (lines 990-1046), the three loaders the data  *)
(* loader calls for the objects of a soundpack (lines 560-651), and        *)
(* shutdown_sound (lines 353-361).                                         *)
(***************************************************************************)
\* how often load_soundset runs
MaxSoundsets == 2

\* the soundpacks that are installed
Soundpacks == {"basic", "retro"}

\* the files of a soundpack's sound effects
PackFiles(pack) ==
    IF pack = "basic" THEN <<"basic_fire.ogg", "basic_fire2.ogg">>
    ELSE <<"retro_fire.ogg">>

\* the playlist of a soundpack
PackPlaylist(pack) == IF pack = "basic" THEN "title" ELSE "game"

\* the objects of a soundpack, in the order the data loader hands them on:
\* one sound effect record, its preload record and one playlist
SoundpackData(pack) ==
    <<[type |-> "sound_effect", id |-> "fire", variants |-> <<"default">>,
       season |-> "", indoors |-> {}, night |-> {}, volume |-> 100,
       files |-> PackFiles(pack)],
      [type |-> "sound_effect_preload", id |-> "fire",
       variants |-> <<"default">>, season |-> "", indoors |-> {},
       night |-> {}],
      [type |-> "playlist", id |-> PackPlaylist(pack), shuffle |-> FALSE,
       entries |-> <<[file |-> pack, volume |-> 100]>>]>>

\* the loaded data as one record
Loaded ==
    [eff |-> effects, res |-> resource, up |-> unique_paths,
     preload |-> sfx_preload, lists |-> playlists, thrown |-> FALSE,
     overrun |-> FALSE]

\* the body of sfx::load_sound_effects (lines 560-594)
sound_effects_loaded(st, o) ==
    IF ~sound_init_success THEN st
    ELSE LET key == [id |-> o.id, variant |-> "", season |-> o.season,
                     indoors |-> o.indoors, night |-> o.night]
             r == load_variants([eff |-> st.eff, res |-> st.res,
                                 up |-> st.up, thrown |-> FALSE],
                                key, o.variants, o.volume, o.files)
         IN [st EXCEPT !.eff = r.eff, !.res = r.res, !.up = r.up,
                       !.thrown = r.thrown]

\* the body of sfx::load_sound_effect_preload (lines 596-629) for one
\* element of "preload"
preload_loaded(st, o) ==
    IF ~sound_init_success THEN st
    ELSE [st EXCEPT !.preload =
             @ \o [i \in 1..Len(o.variants) |->
                      [id |-> o.id, variant |-> o.variants[i],
                       season |-> o.season, indoors |-> o.indoors,
                       night |-> o.night]]]

\* the body of sfx::load_playlist (lines 631-651) for one element of
\* "playlists"
playlist_loaded(st, o) ==
    IF ~sound_init_success THEN st
    ELSE [st EXCEPT !.lists[o.id] =
             [loaded |-> TRUE, entries |-> o.entries, shuffle |-> o.shuffle]]

\* DynamicDataLoader::load_data_from_path (line 1017): every object goes to
\* the loader of its type; an exception ends the loading
RECURSIVE load_data_from_path(_, _)
load_data_from_path(st, objects) ==
    IF objects = <<>> \/ st.thrown THEN st
    ELSE LET o == Head(objects)
             next == IF o.type = "sound_effect"
                     THEN sound_effects_loaded(st, o)
                     ELSE IF o.type = "sound_effect_preload"
                     THEN preload_loaded(st, o)
                     ELSE playlist_loaded(st, o)
         IN load_data_from_path(next, Tail(objects))

\* get_sfx_resource for the effects of one bucket (lines 1026-1028); an id
\* that is no index of the table is an access behind its end
RECURSIVE preload_bucket(_, _, _)
preload_bucket(st, bucket, frames) ==
    IF bucket = <<>> \/ st.overrun THEN st
    ELSE LET resource_id == Head(bucket).resource_id
         IN IF resource_id >= Len(st.res) THEN [st EXCEPT !.overrun = TRUE]
            ELSE preload_bucket(
                     [st EXCEPT !.res = resource_after(@, resource_id, frames,
                                                       resource_id + 1)],
                     Tail(bucket), frames)

\* the preload loop of load_soundset (lines 1023-1030)
RECURSIVE preload_all(_, _, _)
preload_all(st, keys, frames) ==
    IF keys = <<>> \/ st.overrun THEN st
    ELSE LET find_result == sfx_map_find_exact(st.eff, Head(keys))
         IN preload_all(IF find_result.kind = "bucket"
                        THEN preload_bucket(st, Deref(st.eff, find_result.at),
                                            frames)
                        ELSE st,
                        Tail(keys), frames)

\* load_soundset (lines 990-1046) with the option SOUNDPACKS; an empty
\* option selects the default soundpack.  frames is what decoding yields.
load_soundset(SOUNDPACKS, frames) ==
    LET current_soundpack == IF SOUNDPACKS = "" THEN "basic" ELSE SOUNDPACKS
        data == load_data_from_path(Loaded,
                                    SoundpackData(current_soundpack))
        st == preload_all(data, data.preload, frames)
    IN /\ soundsets < MaxSoundsets
       /\ soundset_op.op # "overrun"
       /\ soundsets' = soundsets + 1
       /\ current_soundpack_path' = current_soundpack
       /\ effects' = st.eff
       /\ resource' = st.res
       /\ playlists' = st.lists
       /\ IF st.overrun
          THEN /\ soundset_op' = [op |-> "overrun"]
               /\ unique_paths' = st.up
               /\ sfx_preload' = st.preload
          ELSE /\ soundset_op' = [op |-> "load_soundset",
                                  pack |-> current_soundpack]
               /\ unique_paths' = EmptyMap
               /\ sfx_preload' = <<>>
       /\ UNCHANGED <<sound_init_success, loads, inserted, rejected, query,
                      found>>
       /\ UNCHANGED <<current_music, current_music_track_volume,
                      current_playlist, current_playlist_at,
                      absolute_playlist_at, playlist_indexes, sound_enabled,
                      music_id, music_playing, music_volume, music_pc,
                      music_op>>
       /\ UNCHANGED <<voiceVars, engineVars, volumeVars, cacheVars, pitchVars, playVars>>

\* shutdown_sound (lines 353-361) as far as the tables go
shutdown_sound ==
    /\ soundset_op.op # "overrun"
    /\ resource' = <<>>
    /\ effects' = EmptyMap
    /\ playlists' = [p \in PlaylistNames |-> NoPlaylist]
    /\ soundset_op' = [op |-> "shutdown_sound"]
    /\ UNCHANGED <<unique_paths, sound_init_success, loads, inserted,
                   rejected, query, found>>
    /\ UNCHANGED <<current_music, current_music_track_volume,
                   current_playlist, current_playlist_at,
                   absolute_playlist_at, playlist_indexes, sound_enabled,
                   music_id, music_playing, music_volume, music_pc, music_op>>
    /\ UNCHANGED <<sfx_preload, current_soundpack_path, soundsets>>
    /\ UNCHANGED <<voiceVars, engineVars, volumeVars, cacheVars, pitchVars, playVars>>

\* the files of records that are loaded outside load_soundset
StrayFiles == {<<"a.ogg", "b.ogg">>, <<"b.ogg">>}

\* after init_sound
InitSoundset == InitMusic

NextSoundset ==
    \/ \E SOUNDPACKS \in Soundpacks \cup {""}, frames \in DecodedFrames :
          load_soundset(SOUNDPACKS, frames)
    \/ shutdown_sound
    \/ \E files \in StrayFiles :
          /\ soundset_op.op # "overrun"
          /\ load_sound_effects("fire", <<"default">>, "", {}, {}, 100, files)

SpecSoundset == InitSoundset /\ [][NextSoundset]_vars

(***************************************************************************)
(* Play requests as a whole (lines 876-988): check_sound, the lookup, the  *)
(* decoding of the resource, the pitch shift, make_audio with the mixer,   *)
(* and the error the request logs; play_music_file and the loaders with    *)
(* sound that may be disabled.                                             *)
(***************************************************************************)
\* the three play operations for sound effects
PlayOperations ==
    {"play_variant_sound", "play_variant_sound_pitched",
     "play_ambient_variant_sound"}

\* the volumes of play requests
PlayVolumes == {0, 100}


\* mutant: make_audio returns whether the voice was started
make_audio_returns_started(failed) == ~failed

\* what make_audio returns (line 824)
make_audio_returns(failed) == failed

\* a play request up to its call of make_audio.  It returns early without
\* check_sound (lines 886, 919, 955), on a channel that plays (line 958)
\* and when no effect is found (lines 890-895, 923, 962); otherwise the
\* resource is decoded (get_sfx_resource), a pitched request gets a chunk
\* of its own, and make_audio creates the handler.
play_request(op, volume, audioChannel, effect_found, is_pitched, frames, n_loops) ==
    LET goes_on == /\ check_sound(volume)
                   /\ audioChannel # channel_any =>
                          ~channels[audioChannel].playing
                   /\ effect_found
    IN /\ main.pc = "idle"
       /\ play' = [op |-> op, seq |-> 1 - play.seq, volume |-> volume,
                   made |-> goes_on, done |-> FALSE, failed |-> FALSE,
                   returned |-> FALSE, logged |-> FALSE]
       /\ IF goes_on
          THEN /\ new_handler(audioChannel, is_pitched, frames, n_loops)
               /\ resource' = resource_after(resource, 0,
                                             chunks[TableChunk].frames, 1)
               /\ decoded' = IF chunk_cached(resource[1]) THEN decoded
                             ELSE Append(decoded, 0)
          ELSE UNCHANGED <<engineVars, resource, decoded>>
       /\ UNCHANGED <<effects, unique_paths, sound_init_success, loads,
                      inserted, rejected, query, found>>
       /\ UNCHANGED got
       /\ UNCHANGED <<voiceVars, volumeVars, musicVars, pitchVars, packVars>>

\* make_audio returns to the request, which logs "Failed to play sound
\* effect" when the value is true (lines 902-905, 941-944, 984-987)
make_audio_return ==
    /\ make_audio_cleanup
    /\ play' = [play EXCEPT !.done = TRUE,
                            !.failed = main.failed,
                            !.returned = make_audio_returns(main.failed),
                            !.logged = make_audio_returns(main.failed)]
    /\ UNCHANGED <<resolverVars, voiceVars, volumeVars, cacheVars, musicVars,
                   pitchVars, packVars>>

\* play_music_file (lines 365-388) called for a track
call_play_music_file(filename, volume) ==
    /\ main.pc = "idle"
    /\ \E M \in play_music_file(Music, filename, volume) : SetMusic(M)
    /\ play' = [op |-> "play_music_file", seq |-> 1 - play.seq,
                volume |-> volume, made |-> FALSE, done |-> FALSE,
                failed |-> FALSE, returned |-> FALSE, logged |-> FALSE]
    /\ UNCHANGED <<playlists, sound_enabled, music_id, music_op>>
    /\ UNCHANGED <<resolverVars, voiceVars, engineVars, volumeVars, cacheVars,
                   pitchVars, packVars>>

\* the option SOUND_ENABLED is applied (lines 493-494)
set_sound_enabled(SOUND_ENABLED) ==
    /\ main.pc = "idle"
    /\ sound_enabled # SOUND_ENABLED
    /\ update_music_volume(SOUND_ENABLED)

\* sfx::load_sound_effect_preload (lines 596-629) for one element
load_sound_effect_preload(id, variants, season, indoors, night) ==
    /\ Len(sfx_preload) < MaxLoads
    /\ sfx_preload' =
           preload_loaded(Loaded, [id |-> id, variants |-> variants,
                                   season |-> season, indoors |-> indoors,
                                   night |-> night]).preload
    /\ UNCHANGED <<current_soundpack_path, soundsets, soundset_op>>
    /\ UNCHANGED <<resolverVars, voiceVars, engineVars, volumeVars, cacheVars,
                   musicVars, pitchVars, playVars>>

\* the device was opened or not (init_sound); when it was, one resource is
\* in the table and sound is enabled
InitPlay ==
    /\ effects = EmptyMap /\ unique_paths = EmptyMap
    /\ loads = 0 /\ inserted = EmptyMap /\ rejected = 0
    /\ query = NoQuery /\ found = Nullptr
    /\ VoiceIdle /\ VolumeIdle /\ CacheIdle /\ MusicIdle /\ PitchIdle
    /\ PackIdle /\ PlayIdle
    /\ \E opened \in BOOLEAN, frames \in ChunkFrames :
          /\ sound_init_success = opened
          /\ audio_open = opened
          /\ resource = IF opened
                        THEN <<[path |-> "a.ogg", chunk |-> NoChunk]>>
                        ELSE <<>>
          /\ chunks = <<[owner |-> "table", frames |-> frames, frees |-> 0]>>
    /\ handlers = <<>>
    /\ channels = [c \in ChannelIds |->
                      [playing |-> FALSE, chunk |-> 0, effects |-> <<>>]]
    /\ main = MainIdle
    /\ ended_by = <<>>

\* the requests of the three play operations
\* the lengths of the chunks do_pitch_shift makes: none or two frames
PitchedFrames == {0, 2}

play_requests ==
    \/ \E volume \in PlayVolumes, effect_found \in BOOLEAN :
          play_request("play_variant_sound", volume, channel_any, effect_found,
                       FALSE, 0, 0)
    \/ \E volume \in PlayVolumes, effect_found \in BOOLEAN, is_pitched \in BOOLEAN,
          frames \in PitchedFrames :
          play_request("play_variant_sound_pitched", volume, channel_any,
                       effect_found, is_pitched, frames, 0)
    \/ \E volume \in PlayVolumes, audioChannel \in ChannelIds,
          effect_found \in BOOLEAN, is_pitched \in BOOLEAN,
          frames \in PitchedFrames :
          play_request("play_ambient_variant_sound", volume, audioChannel,
                       effect_found, is_pitched, frames, -1)

\* play requests, their make_audio and halts of channels
NextPlay ==
    \/ play_requests
    \/ make_audio_play
    \/ \E registered \in BOOLEAN : make_audio_register(registered)
    \/ make_audio_return
    \/ \E c \in ChannelIds : forced_halt(c)

SpecPlay == InitPlay /\ [][NextPlay]_vars

\* the requests of the three play operations for an effect that is found,
\* on the first channel or on any
found_requests ==
    \E op \in PlayOperations, volume \in PlayVolumes, is_pitched \in BOOLEAN :
        play_request(op, volume,
                     IF op = "play_ambient_variant_sound" THEN 0
                     ELSE channel_any,
                     TRUE, is_pitched /\ op # "play_variant_sound", 2, 0)

\* play requests, music and loaders with sound enabled and disabled: one
\* voice, and every loader once
NextDisabled ==
    \/ handlers = <<>> /\ found_requests
    \/ make_audio_play
    \/ \E registered \in BOOLEAN : make_audio_register(registered)
    \/ make_audio_end
    \/ \E volume \in PlayVolumes : call_play_music_file(1, volume)
    \/ \E SOUND_ENABLED \in BOOLEAN : set_sound_enabled(SOUND_ENABLED)
    \/ /\ loads = 0
       /\ load_sound_effects("fire", <<"default">>, "", {}, {}, 100,
                             <<"b.ogg">>)
    \/ /\ sfx_preload = <<>>
       /\ load_sound_effect_preload("fire", <<"default">>, "", {}, {})
    \/ /\ ~playlists["title"].loaded
       /\ load_playlist("title", FALSE, EntriesOf(1))

SpecDisabled == InitPlay /\ [][NextDisabled]_vars

(***************************************************************************)
(* The resolver seen flat: the set of full key tuples that have a bucket,  *)
(* and the queries the properties range over.                              *)
(***************************************************************************)
RECURSIVE PathsOf(_, _)
PathsOf(c, depth) ==
    IF depth = 0 THEN {<<>>}
    ELSE UNION {{<<k>> \o p : p \in PathsOf(c[k], depth - 1)} : k \in DOMAIN c}

Buckets == PathsOf(effects, 5)

Queries ==
    [id : QueryIds, variant : QueryVariants, season : QuerySeasons,
     indoors : OptBool, night : OptBool]

ValidQueries == {q \in Queries : season_from_string(q.season) # invalid_argument}

Find(q) == sfx_map_find(effects, q.id, q.variant, q.season, q.indoors, q.night)

\* the converted values a query asks for
Wanted(q) == <<q.id, q.variant, season_from_string(q.season),
               in_or_out_from_int(bool_or(q.indoors, -1)),
               tod_from_int(bool_or(q.night, -1))>>

\* the per-level defaults the specification names; the id level has none
LevelDefault == <<"", "default", sfx_season_NONE, sfx_in_or_out_EITHER,
                  sfx_time_of_day_ANY>>

\* the descent stated over the flat set of buckets B (those that agree
\* with the path taken so far): at level i take the wanted value if some
\* bucket continues with it, else the level's default if the level has one
\* and some bucket continues with it
RECURSIVE Descend(_, _, _, _)
Descend(B, want, i, idDefault) ==
    IF i > 5 THEN PtrTo(CHOOSE p \in B : TRUE)
    ELSE LET Bk == {p \in B : p[i] = want[i]}
             Bd == {p \in B : p[i] = LevelDefault[i]}
         IN IF Bk # {} THEN Descend(Bk, want, i + 1, idDefault)
            ELSE IF (i > 1 \/ idDefault) /\ Bd # {}
                 THEN Descend(Bd, want, i + 1, idDefault)
            ELSE Nullptr

\* C1: the best-match lookup is the nested descent id, variant, season,
\* indoorness, timeOfDay with the defaults "default", none, either, any and
\* no default at the id level.
C1_NestedDescent ==
    LET B == Buckets
    IN \A q \in ValidQueries : Find(q) = Descend(B, Wanted(q), 1, FALSE)

\* The same descent with the empty string as the default of the id level,
\* which is what line 259 passes.
DescentWithEmptyIdDefault ==
    LET B == Buckets
    IN \A q \in ValidQueries : Find(q) = Descend(B, Wanted(q), 1, TRUE)

\* C2: fallback goes towards the default only: the bucket a best-match
\* lookup returns is stored under the requested season or none, the
\* requested indoorness or either, the requested time of day or any.
C2_FallbackTowardsDefaultOnly ==
    \A q \in ValidQueries :
        LET r == Find(q)
            w == Wanted(q)
        IN r.kind = "bucket" =>
              /\ r.at[3] \in {w[3], sfx_season_NONE}
              /\ r.at[4] \in {w[4], sfx_in_or_out_EITHER}
              /\ r.at[5] \in {w[5], sfx_time_of_day_ANY}

\* a recorded lookup that was answered from a default at the season, the
\* indoorness and the time-of-day level
C2_Witness ==
    /\ query.asked /\ found.kind = "bucket"
    /\ found = Find(query.q)
    /\ Wanted(query.q)[5] = sfx_time_of_day_NIGHTTIME
    /\ found.at[5] = sfx_time_of_day_ANY
    /\ \E p \in Buckets : p[1] = found.at[1] /\ p[5] = sfx_time_of_day_DAYTIME

\* C3: the id level has no fallback: a lookup returns a bucket only if the
\* requested id is a key of the resolver, and then a bucket stored under
\* that id; an id that was never inserted yields nullptr.
C3_IdHasNoFallback ==
    \A q \in ValidQueries :
        LET r == Find(q)
        IN /\ r.kind = "bucket" => (q.id \in DOMAIN effects /\ r.at[1] = q.id)
           /\ (\A k \in DOMAIN inserted : k.id # q.id) => r = Nullptr

\* a state in which a requested id has no bucket, the empty id has one, and
\* the lookup is answered from the empty id
EmptyIdAnswers ==
    \E q \in ValidQueries :
        /\ q.id # "" /\ q.id \notin DOMAIN effects
        /\ Find(q).kind = "bucket" /\ Find(q).at[1] = ""

\* C4: exact lookup of a key returns the bucket that holds exactly the
\* effects appended under that key, in order; a key that was never inserted
\* yields nullptr; different keys have different buckets.
C4_ExactLookup ==
    /\ \A k \in ValidQueries :
          LET r == sfx_map_find_exact(effects, k)
          IN IF k \in DOMAIN inserted
             THEN r.kind = "bucket" /\ Deref(effects, r.at) = inserted[k]
             ELSE r = Nullptr
    /\ \A k1, k2 \in DOMAIN inserted :
          k1 # k2 => sfx_map_find_exact(effects, k1) # sfx_map_find_exact(effects, k2)

\* two keys that differ only in indoors (unset against false), each with
\* its own non-empty bucket
C4_Witness ==
    \E k1 \in DOMAIN inserted :
        LET k2 == [k1 EXCEPT !.indoors = {FALSE}]
        IN /\ k1.indoors = {} /\ k2 \in DOMAIN inserted
           /\ inserted[k1] # <<>> /\ inserted[k2] # <<>>
           /\ sfx_map_find_exact(effects, k1).kind = "bucket"
           /\ sfx_map_find_exact(effects, k2).kind = "bucket"

\* a request with no optional dimension set
Plain(q) == q.season = "" /\ q.indoors = {} /\ q.night = {}

\* the variant level the request ends up on, and its all-default bucket
FallbackVariant(B, q) ==
    IF \E p \in B : p[1] = q.id /\ p[2] = q.variant THEN q.variant ELSE "default"
AllDefault(B, q) ==
    <<q.id, FallbackVariant(B, q), sfx_season_NONE, sfx_in_or_out_EITHER,
      sfx_time_of_day_ANY>>
MoreSpecific(B, q) ==
    \E p \in B : /\ p[1] = q.id /\ p[2] = FallbackVariant(B, q)
                 /\ p # AllDefault(B, q)

\* C5 as stated: a plain request matches the all-default bucket of its
\* id+variant if and only if no more specific bucket exists there.
C5_OnlyIfNothingMoreSpecific ==
    LET B == Buckets
    IN \A q \in ValidQueries :
          (Plain(q) /\ AllDefault(B, q) \in B) =>
              ((Find(q) = PtrTo(AllDefault(B, q))) <=> ~MoreSpecific(B, q))

\* C5 amended: a plain request returns the all-default bucket of its
\* id+variant if and only if that bucket exists, whatever more specific
\* buckets exist, and it never returns a more specific bucket.
C5_PlainRequestMatchesAllDefault ==
    LET B == Buckets
    IN \A q \in ValidQueries :
          Plain(q) =>
              /\ (Find(q) = PtrTo(AllDefault(B, q))) <=> (AllDefault(B, q) \in B)
              /\ Find(q).kind = "bucket" =>
                    /\ Find(q).at[3] = sfx_season_NONE
                    /\ Find(q).at[4] = sfx_in_or_out_EITHER
                    /\ Find(q).at[5] = sfx_time_of_day_ANY

\* a recorded plain request answered from the all-default bucket while a
\* more specific bucket exists for the same id+variant
C5_Witness ==
    /\ query.asked /\ Plain(query.q)
    /\ found = Find(query.q)
    /\ found = PtrTo(AllDefault(Buckets, query.q))
    /\ MoreSpecific(Buckets, query.q)

\* C6: when the only bucket of an id is the all-default one, every
\* best-match lookup for that id returns it.
C6_AllLevelsFallBack ==
    LET B == Buckets
    IN \A q \in ValidQueries :
          LET d == <<q.id, "default", sfx_season_NONE, sfx_in_or_out_EITHER,
                     sfx_time_of_day_ANY>>
          IN {p \in B : p[1] = q.id} = {d} => Find(q) = PtrTo(d)

\* the recorded lookup (heavy, winter, indoors, night) answered from the
\* only bucket of its id, the all-default one
C6_Witness ==
    /\ query.asked /\ found = Find(query.q)
    /\ query.q.variant = "heavy" /\ query.q.season = "winter"
    /\ query.q.indoors = {TRUE} /\ query.q.night = {TRUE}
    /\ {p \in Buckets : p[1] = query.q.id} =
          {<<query.q.id, "default", sfx_season_NONE, sfx_in_or_out_EITHER,
             sfx_time_of_day_ANY>>}
    /\ found = PtrTo(<<query.q.id, "default", sfx_season_NONE,
                       sfx_in_or_out_EITHER, sfx_time_of_day_ANY>>)

(***************************************************************************)
(* Properties of one voice.                                                *)
(***************************************************************************)
\* quarter frames in one traversal of the source
TraversalLength == num_source_samples * IndexScale

\* C7: every source frame index that slowed_time_effect reads, the floor
\* index and the wrapped ceil index of the read position, lies in
\* 0 .. num_source_samples - 1.
C7_ReadsWithinSource ==
    \A i \in DOMAIN stream :
        stream[i].kind = "source" =>
            /\ stream[i].low = floor_index(stream[i].at)
            /\ stream[i].low \in 0..(num_source_samples - 1)
            /\ stream[i].high \in 0..(num_source_samples - 1)

\* a callback that read the last frame with a fractional position (the ceil
\* index wrapped to 0) and went on reading at frame 0 after the wrap-around
C7_Witness ==
    /\ num_source_samples > 1
    /\ \E i \in DOMAIN stream :
          /\ i + 1 \in DOMAIN stream
          /\ stream[i].kind = "source" /\ stream[i + 1].kind = "source"
          /\ stream[i].at % IndexScale # 0
          /\ stream[i].low = num_source_samples - 1 /\ stream[i].high = 0
          /\ stream[i + 1].low = 0

\* the frames of the stream from position i on are silence
SilenceFrom(i) == \A j \in DOMAIN stream : j >= i => stream[j].kind = "silence"

\* C8: a voice started with nloops = k >= 0 plays the source k + 1 times:
\* while it plays, the loop counter is k minus the number of completed
\* traversals and no halt has been requested; the halt is requested in the
\* callback in which the (k+1)-th traversal completes, and the rest of
\* that buffer is silence.
C8_PlaysLoopsPlusOneTimes ==
    (voice # "None" /\ nloops >= 0 /\ num_source_samples > 0) =>
        LET total == (nloops + 1) * TraversalLength
        IN /\ voice = "Playing" =>
                /\ ~halt_requested
                /\ played < total
                /\ handler.loops_remaining = nloops - (played \div TraversalLength)
                /\ handler.current_sample_index = played % TraversalLength
           /\ ~halt_requested => played < total
           /\ halt_requested =>
                /\ voice = "Finished"
                /\ handler.loops_remaining = -1
                /\ played >= total /\ played < total + IndexScale
                /\ Len(stream) = stream_len
                /\ \E i \in DOMAIN stream :
                      /\ stream[i].kind = "source"
                      /\ SilenceFrom(i + 1)

\* a voice with nloops > 0 whose last traversal ended inside a buffer, the
\* rest of which is silence
C8_Witness ==
    /\ halt_requested /\ nloops > 0 /\ voice = "Finished"
    /\ \E i \in DOMAIN stream :
          /\ i + 1 \in DOMAIN stream
          /\ stream[i].kind = "source" /\ stream[i + 1].kind = "silence"

\* a voice with nloops = 0 finished after one traversal
C8_WitnessOnce ==
    /\ halt_requested /\ nloops = 0 /\ voice = "Finished"
    /\ played = TraversalLength

\* C9 as stated: a voice started with nloops = -1 never requests the halt
\* of its channel itself.
C9_NeverHaltsItself ==
    (voice # "None" /\ nloops = -1) => ~halt_requested

\* C9 amended: a voice started with nloops = -1 has a budget of
\* ForeverLoops loops: it does not request the halt itself before
\* ForeverLoops + 1 traversals have completed, and until then it stays
\* Playing unless halted from outside; it requests the halt in the
\* callback that completes traversal ForeverLoops + 1.
C9_HaltsItselfOnlyAfterBudget ==
    (voice # "None" /\ nloops = -1 /\ num_source_samples > 0) =>
        LET total == (ForeverLoops + 1) * TraversalLength
        IN /\ voice = "Playing" =>
                /\ ~halt_requested
                /\ played < total
                /\ handler.loops_remaining =
                      ForeverLoops - (played \div TraversalLength)
           /\ halt_requested <=> played >= total
           /\ halt_requested => voice = "Finished"
           /\ (voice = "Finished" /\ played < total) => ~halt_requested

\* a voice started with nloops = -1 that is still playing after several
\* traversals
C9_Witness ==
    /\ voice = "Playing" /\ nloops = -1
    /\ played >= 3 * TraversalLength
    /\ ~halt_requested

(***************************************************************************)
(* Properties of the lifetime of voices.                                   *)
(***************************************************************************)
\* the channels on which handler h is registered
RegisteredOn(h) ==
    {c \in ChannelIds : \E i \in DOMAIN channels[c].effects : channels[c].effects[i] = h}

\* handler h is in the hands of a make_audio that has not returned
InMakeAudio(h) == main.pc \in {"make_audio_play", "make_audio_register",
                               "make_audio_end"} /\ main.handler = h

\* C10: in every interleaving of the audio thread with the main thread,
\* on_finish runs at most once for a handler and a chunk a handler owns is
\* freed at most once, by on_finish; a handler that is still alive is
\* registered on exactly one channel or in the hands of make_audio, so that
\* nothing is leaked; once shutdown_sound has returned, on_finish has run
\* exactly once for every handler and every owned chunk was freed exactly
\* once.
C10_TornDownExactlyOnce ==
    /\ \A h \in DOMAIN handlers :
          /\ Len(ended_by[h]) <= 1
          /\ handlers[h].deleted = Len(ended_by[h])
          /\ handlers[h].owns_audio =>
                /\ chunks[handlers[h].audio_src].owner = "voice"
                /\ chunks[handlers[h].audio_src].frees = Len(ended_by[h])
          /\ IF handlers[h].deleted = 0
             THEN \/ InMakeAudio(h) /\ RegisteredOn(h) = {}
                  \/ Cardinality(RegisteredOn(h)) = 1
             ELSE RegisteredOn(h) = {}
    /\ \A h1, h2 \in DOMAIN handlers :
          (h1 # h2 /\ handlers[h1].owns_audio) =>
              handlers[h1].audio_src # handlers[h2].audio_src
    /\ \A c \in ChannelIds : Len(channels[c].effects) <= 1
    /\ (~audio_open /\ main.pc = "idle") =>
          \A h \in DOMAIN handlers : Len(ended_by[h]) = 1

\* after shutdown_sound: one voice that owned its chunk halted itself in
\* its callback, another was still registered and was torn down by the
\* shutdown
C10_Witness ==
    /\ ~audio_open /\ main.pc = "idle"
    /\ \E h1, h2 \in DOMAIN handlers :
          /\ handlers[h1].owns_audio /\ ended_by[h1] = <<"callback">>
          /\ chunks[handlers[h1].audio_src].frees = 1
          /\ ended_by[h2] = <<"shutdown">>

\* a voice torn down by a forced halt of the main thread, and one torn
\* down by make_audio itself after the mixer refused it
ForcedAndFailed ==
    \E h1, h2 \in DOMAIN handlers :
        ended_by[h1] = <<"halt">> /\ ended_by[h2] = <<"make_audio">>

\* C11: on_finish is idempotent: a second invocation for a handler that was
\* already torn down changes nothing and frees nothing, so the handler is
\* destroyed once, an owned chunk is freed once and the process goes on.
C11_SecondFinishChangesNothing ==
    /\ main.pc # "abort"
    /\ \A h \in DOMAIN handlers :
          Len(ended_by[h]) >= 2 =>
              /\ handlers[h].deleted = 1
              /\ handlers[h].owns_audio =>
                    chunks[handlers[h].audio_src].frees = 1

\* a second on_finish for a handler that owned its chunk has run the
\* destructor again
SecondFinishFreesAgain ==
    \E h \in DOMAIN handlers :
        /\ handlers[h].owns_audio /\ Len(ended_by[h]) = 2
        /\ handlers[h].deleted = 2
        /\ chunks[handlers[h].audio_src].frees = 2

\* C12: when make_audio fails (no channel, or Mix_RegisterEffect fails) it
\* runs on_finish for the handler exactly once before it returns: the
\* handler is destroyed, a chunk it owns is freed once, a borrowed chunk is
\* left as it was, the handler was never registered and never ran a
\* callback, and the channel that was started is not playing.
C12_FailedStartReleasesOnce ==
    [][(main.pc = "make_audio_end" /\ main.failed /\ main'.pc = "idle") =>
          LET h == main.handler
              src == handlers[h].audio_src
          IN /\ ended_by[h] = <<>> /\ ended_by'[h] = <<"make_audio">>
             /\ handlers[h].deleted = 0 /\ handlers'[h].deleted = 1
             /\ handlers[h].current_sample_index = 0
             /\ \A c \in ChannelIds :
                   \A i \in DOMAIN channels[c].effects : channels[c].effects[i] # h
             /\ channels' = channels
             /\ main.channel # -1 => ~channels[main.channel].playing
             /\ IF handlers[h].owns_audio
                THEN /\ chunks[src].frees = 0 /\ chunks'[src].frees = 1
                     /\ \A c \in ChannelIds :
                           channels[c].playing => channels[c].chunk # src
                     /\ chunks'[TableChunk] = chunks[TableChunk]
                ELSE chunks' = chunks]_vars

\* make_audio has failed twice and returned: once for a voice that owned
\* its chunk, which is freed, and once for a voice on the table's chunk,
\* which is not
C12_Witness ==
    /\ main.pc = "idle" /\ audio_open
    /\ chunks[TableChunk].frees = 0
    /\ \E h1, h2 \in DOMAIN handlers :
          /\ handlers[h1].owns_audio /\ ended_by[h1] = <<"make_audio">>
          /\ chunks[handlers[h1].audio_src].frees = 1
          /\ ~handlers[h2].owns_audio /\ ended_by[h2] = <<"make_audio">>
          /\ handlers[h2].audio_src = TableChunk

\* the handlers that are still alive and registered on a channel
LiveRegistered ==
    {h \in DOMAIN handlers :
        handlers[h].deleted = 0 /\ RegisteredOn(h) # {}}

\* C13: a chunk of the resource table is freed only after every voice on
\* it was halted and its completion callback has run: no handler that is
\* still alive and registered refers to a freed chunk.
C13_VoicesDrainedBeforeFree ==
    \A h \in LiveRegistered : chunks[handlers[h].audio_src].frees = 0

\* What holds instead: Mix_FreeChunk stops the channels that play the
\* chunk, so no channel that can still run a callback plays a freed chunk.
NoCallbackOnFreedChunk ==
    \A c \in ChannelIds :
        (channels[c].playing /\ channels[c].effects # <<>>) =>
            /\ chunks[channels[c].chunk].frees = 0
            /\ \A i \in DOMAIN channels[c].effects :
                  chunks[handlers[channels[c].effects[i]].audio_src].frees = 0

\* shutdown_sound has freed the table's chunk while a voice on it is still
\* registered and not torn down
FreedUnderRegisteredVoice ==
    /\ main.pc = "shutdown_close"
    /\ \E h \in LiveRegistered :
          /\ handlers[h].audio_src = TableChunk
          /\ chunks[TableChunk].frees = 1

\* C14: once a voice has requested the halt of its channel, a further call
\* of slowed_time_effect is a no-op: it trips no assertion, leaves the
\* read position and the loop counter as they are and writes no frame.
C14_LateCallbackIsNoOp ==
    [][(voice = "Finished" /\ halt_requested) =>
          /\ voice' = "Finished"
          /\ handler' = handler
          /\ stream' \in {stream, <<>>}]_vars

\* a late callback has run with assertions compiled out: it wrote silence
\* and moved the read position
LateCallbackWroteSilence ==
    /\ voice = "Finished" /\ halt_requested
    /\ stream # <<>> /\ SilenceFrom(1)
    /\ handler.current_sample_index # played % TraversalLength

\* a late callback has tripped the assertion of line 717
LateCallbackAborted == voice = "Aborted"

(***************************************************************************)
(* Properties of the volume of a request.                                  *)
(***************************************************************************)
\* C15: a chunk borrowed from the resource table is read-only for voices:
\* a play request leaves its volume as it was.
C15_BorrowedChunkUnchanged ==
    request.asked => chunk_volume = request.before

\* a request that did not pitch-shift has set the volume of the table's
\* chunk, which every voice on that chunk is mixed with
BorrowedChunkVolumeSet ==
    /\ request.asked /\ ~request.is_pitched
    /\ request.before # request.handed
    /\ chunk_volume = request.handed

\* effect volume x category volume x request volume / (100 x 100)
VolumeProduct(effect_volume, category, volume) ==
    (effect_volume * category * volume) \div (100 * 100)

\* C16: for every play request the volume handed to the mixer is the
\* effect's volume times one category volume times the request's volume,
\* divided by 100 x 100, each factor applied once.
C16_VolumeIsOneProduct ==
    request.asked =>
        \E category \in {request.sfx_option, request.ambient_option} :
            request.handed =
                VolumeProduct(request.effect_volume, category, request.volume)

\* What holds: the one-shot request hands on the product with
\* SOUND_EFFECT_VOLUME; the ambient request hands on that product of the
\* product with AMBIENT_SOUND_VOLUME (the options as they were at the
\* request).
VolumeAsComputed ==
    request.asked =>
        request.handed =
            IF request.ambient
            THEN VolumeProduct(request.effect_volume, request.sfx_option,
                     VolumeProduct(request.effect_volume, request.ambient_option,
                                   request.volume))
            ELSE VolumeProduct(request.effect_volume, request.sfx_option,
                               request.volume)

\* an ambient request with an effect volume of 50 and both options at 100:
\* the effect's volume went in twice
AmbientVolumeTwice ==
    /\ request.asked /\ request.ambient
    /\ request.effect_volume = 50 /\ request.volume = 100
    /\ request.sfx_option = 100 /\ request.ambient_option = 100
    /\ request.handed = 25

(***************************************************************************)
(* The speed of one callback.                                              *)
(***************************************************************************)
\* the frame read at position at of the source
FrameAt(at) ==
    SourceFrame(floor_index(at),
                wrap_high_index(ceil_index(at), num_source_samples), at)

\* C17: the time-slowed predicate is sampled once per callback: all source
\* frames of one callback are read at positions that advance by one and
\* the same speed (1 or 0.25 frame) from the position the previous callback
\* left, wrapping at the end of the source; the loop counter goes down by
\* the number of times the position passed the end and by nothing else,
\* whatever the speed was in this and in earlier callbacks.
C17_SpeedSampledOncePerCallback ==
    [][(voice = "Playing" /\ handler' # handler) =>
          \E speed \in {1, IndexScale} :
              LET k == SourceFrames(stream')
                  start == handler.current_sample_index
                  end == start + k * speed
              IN /\ k >= 1
                 /\ \A i \in 1..k :
                       stream'[i] = FrameAt((start + (i - 1) * speed) % TraversalLength)
                 /\ \A i \in (k + 1)..Len(stream') : stream'[i] = SilentFrame
                 /\ played' = played + k * speed
                 /\ handler'.loops_remaining =
                       handler.loops_remaining - (end \div TraversalLength)
                 /\ handler'.loops_remaining >= 0 =>
                       handler'.current_sample_index = end % TraversalLength]_vars

\* a callback at normal speed that started from a fractional position, which
\* a slowed callback had left, and went over the end of the source
C17_Witness ==
    /\ voice = "Playing"
    /\ \E i \in DOMAIN stream :
          /\ i + 1 \in DOMAIN stream
          /\ stream[i].kind = "source" /\ stream[i + 1].kind = "source"
          /\ stream[i].at % IndexScale # 0
          /\ stream[i].at + IndexScale >= TraversalLength
          /\ stream[i + 1].at = (stream[i].at + IndexScale) % TraversalLength

(***************************************************************************)
(* Properties of the cache of decoded chunks.                              *)
(***************************************************************************)
\* how often resource id i was decoded
RECURSIVE Decodes(_, _)
Decodes(seq, i) ==
    IF seq = <<>> THEN 0
    ELSE (IF Head(seq) = i THEN 1 ELSE 0) + Decodes(Tail(seq), i)

\* C18: get_sfx_resource decodes the file of a resource at most once, also
\* when the decoding failed and the empty chunk was stored; a call for a
\* resource that has its chunk returns that chunk and changes nothing; a
\* call never changes the entry of another resource.
C18_MaterializeIsIdempotent ==
    /\ \A i \in 0..(Len(resource) - 1) :
          /\ Decodes(decoded, i) <= 1
          /\ resource[i + 1].chunk.loaded <=> Decodes(decoded, i) = 1
    /\ got.asked =>
          /\ got.chunk.loaded
          /\ got.chunk = resource[got.resource_id + 1].chunk
          /\ got.before[got.resource_id + 1].chunk.loaded =>
                /\ got.after = got.before
                /\ got.chunk = got.before[got.resource_id + 1].chunk
          /\ \A j \in DOMAIN got.before :
                j # got.resource_id + 1 => got.after[j] = got.before[j]

\* a resource whose file could not be decoded was asked for again: the
\* call returned the empty chunk stored by the first call, while another
\* resource is still not decoded
C18_Witness ==
    /\ got.asked
    /\ got.before[got.resource_id + 1].chunk.loaded
    /\ got.chunk.frames = 0
    /\ Decodes(decoded, got.resource_id) = 1
    /\ \E j \in DOMAIN resource : ~resource[j].chunk.loaded

(***************************************************************************)
(* Validation of the season string.                                        *)
(***************************************************************************)
\* the resource ids of the effects that were appended
InsertedResourceIds ==
    UNION {{inserted[k][i].resource_id : i \in DOMAIN inserted[k]} :
              k \in DOMAIN inserted}

\* C19: an insert or a lookup, exact or best-match, whose season string is
\* not "", "spring", "summer", "autumn" or "winter" throws and returns no
\* bucket; a load_sound_effects whose record has such a season leaves the
\* resolver and the resource table as they were, so no bucket sits under
\* an invalid season and every resource id belongs to an accepted record.
C19_InvalidSeasonIsRejected ==
    /\ \A q \in Queries :
          q.season \notin {"", "spring", "summer", "autumn", "winter"} =>
              /\ sfx_map_find(effects, q.id, q.variant, q.season, q.indoors,
                              q.night) = Thrown
              /\ sfx_map_find_exact(effects, q) = Thrown
              /\ sfx_map_index_ptr(q) = Thrown
              /\ sfx_map_index(effects, q) = effects
    /\ \A r \in ValidationRecords :
          r.season \notin {"", "spring", "summer", "autumn", "winter"} =>
              LET st == [eff |-> effects, res |-> resource,
                         up |-> unique_paths, thrown |-> FALSE]
                  key == [id |-> r.id, variant |-> "", season |-> r.season,
                          indoors |-> r.indoors, night |-> r.night]
              IN load_variants(st, key, r.variants, r.volume, r.files) =
                    [st EXCEPT !.thrown = TRUE]
    /\ \A p \in Buckets : p[3] \in sfx_season_NONE..sfx_season_WINTER
    /\ {unique_paths[f] : f \in DOMAIN unique_paths} = InsertedResourceIds
    /\ Len(resource) = Cardinality(DOMAIN unique_paths)
    /\ (query.asked /\ query.q.season = "bogus") => found = Thrown

\* a record with an invalid season was rejected after another was
\* accepted, and a lookup with an invalid season has thrown
C19_Witness ==
    /\ rejected >= 1 /\ loads = rejected + 1
    /\ Cardinality(Buckets) >= 1 /\ Len(resource) = 1
    /\ query.asked /\ query.q.season = "bogus" /\ found = Thrown

(***************************************************************************)
(* The contents of buckets.                                                *)
(***************************************************************************)
\* C20: every bucket of the resolver holds at least one effect, so a
\* lookup that returns a bucket returns one find_random_effect can choose
\* from.
C20_BucketsNeverEmpty ==
    /\ \A p \in Buckets : Deref(effects, p) # <<>>
    /\ found.kind = "bucket" => Deref(effects, found.at) # <<>>

\* a lookup has returned a bucket without effects
EmptyBucketFound ==
    /\ query.asked /\ found.kind = "bucket"
    /\ found = Find(query.q)
    /\ Deref(effects, found.at) = <<>>

(***************************************************************************)
(* Background music: the play order.                                       *)
(***************************************************************************)
\* the playlist that is current, as playlists has it now
CurrentList == find_playlist(current_playlist)

\* a playlist is current and playlists has it
PlaylistCurrent ==
    /\ music_pc = "running"
    /\ current_playlist # ""
    /\ CurrentList.loaded

\* C21: while the playlist asked for is the current one, the play order is
\* a permutation of 0..n-1 of the n entries the current playlist has,
\* absolute_playlist_at is below n, and current_playlist_at is the play
\* order's element at absolute_playlist_at, so that n track ends in a row
\* select every entry once.
C21_PlayOrderIsPermutation ==
    (PlaylistCurrent /\ music_id = current_playlist) =>
        LET n == Len(CurrentList.entries)
        IN /\ playlist_indexes \in Orders(n)
           /\ absolute_playlist_at < n
           /\ current_playlist_at = playlist_indexes[absolute_playlist_at + 1]

\* a track end has read behind the end of the play order: at() has thrown
\* out of the mixer's callback
PlayOrderOverrun ==
    /\ music_pc = "terminated"
    /\ absolute_playlist_at >= Len(playlist_indexes)

\* a track end has selected an entry the current playlist does not have
EntryOverrun ==
    /\ PlaylistCurrent
    /\ current_playlist_at >= Len(CurrentList.entries)
    /\ Len(CurrentList.entries) > 0
    /\ music_playing \in GarbageEntries

C22_SamePlaylistAgain ==
    /\ music_op.op = "play_music"
    /\ music_op.from = music_op.playlist
    /\ current_playlist \in PlaylistNames
    /\ music_playing # NoMusic

\* C29: whenever a track of the current playlist plays,
\* current_music_track_volume is the volume of the current playlist's entry
\* at current_playlist_at.
C29_TrackVolumeIsCurrent ==
    (PlaylistCurrent /\ music_playing # NoMusic
         /\ current_playlist_at < Len(CurrentList.entries)) =>
        current_music_track_volume =
            CurrentList.entries[current_playlist_at + 1].volume

\* a track end has started the next track, which plays at its own volume,
\* while current_music_track_volume is still that of the first track:
\* update_music_volume would set the mixer to the first track's volume
StaleTrackVolume ==
    /\ PlaylistCurrent
    /\ playlist_indexes \in Orders(Len(CurrentList.entries))
    /\ current_playlist_at < Len(CurrentList.entries)
    /\ music_playing = CurrentList.entries[current_playlist_at + 1]
    /\ music_volume = (music_playing.volume * MUSIC_VOLUME) \div 100
    /\ current_music_track_volume # music_playing.volume

(***************************************************************************)
(* Pitch shifting.                                                         *)
(***************************************************************************)
\* C23: with the pitch factor 1.0 do_pitch_shift returns a chunk of as many
\* frames as the source has, and every frame of it equals the source's
\* frame at the same index, in both channels.
C23_UnitPitchIsIdentity ==
    (pitch_result.done /\ pitch = <<1, 1>>) =>
        /\ Len(pitch_result.frames) = Len(pitch_s)
        /\ \A i \in 1..Len(pitch_s) : pitch_result.frames[i] = pitch_s[i]

\* with the pitch factor 1.0 an output frame is the mean of two different
\* source frames
UnitPitchAveragesTwoFrames ==
    /\ pitch_result.done /\ pitch = <<1, 1>>
    /\ Len(pitch_s) >= 2
    /\ pitch_s[1] = <<2, 2>> /\ pitch_s[2] = <<-3, -3>>
    /\ pitch_result.frames[1] = <<0, 0>>

(***************************************************************************)
(* Soundpacks.                                                             *)
(***************************************************************************)
\* the files of a soundpack as a set
FilesOf(pack) == {PackFiles(pack)[i] : i \in 1..Len(PackFiles(pack))}

\* the paths of the resources the effects of a bucket point to
PathsIn(bucket) ==
    {resource[bucket[i].resource_id + 1].path :
        i \in {j \in 1..Len(bucket) : bucket[j].resource_id < Len(resource)}}

\* C24: after load_soundset has completed for a soundpack, and with no
\* record loaded outside load_soundset, every resource, every effect of
\* every bucket and every playlist is one of that soundpack.
C24_OnlyCurrentSoundpack ==
    (soundset_op.op = "load_soundset" /\ loads = 0) =>
        LET pack == soundset_op.pack
        IN /\ \A i \in 1..Len(resource) : resource[i].path \in FilesOf(pack)
           /\ \A p \in Buckets : PathsIn(Deref(effects, p)) \subseteq FilesOf(pack)
           /\ \A name \in PlaylistNames :
                  playlists[name].loaded => name = PackPlaylist(pack)

\* load_soundset has run for one soundpack and then for the other: one
\* bucket holds effects of both, and the playlists of both are loaded
MixedBucket ==
    /\ soundset_op.op = "load_soundset" /\ soundset_op.pack = "retro"
    /\ loads = 0 /\ soundsets = 2
    /\ \E p \in Buckets :
          /\ PathsIn(Deref(effects, p)) \cap FilesOf("basic") # {}
          /\ PathsIn(Deref(effects, p)) \cap FilesOf("retro") # {}
    /\ Len(resource) = 3
    /\ playlists["title"].loaded /\ playlists["game"].loaded

\* C28: every resource_id of an effect in a bucket is an index of the
\* resource table, and every id in unique_paths is the index of the
\* table's entry for that path.
C28_ResourceIdsAreValid ==
    soundset_op.op # "overrun" =>
        /\ \A p \in Buckets :
              \A i \in 1..Len(Deref(effects, p)) :
                  Deref(effects, p)[i].resource_id \in 0..(Len(resource) - 1)
        /\ \A path \in DOMAIN unique_paths :
              /\ unique_paths[path] \in 0..(Len(resource) - 1)
              /\ resource[unique_paths[path] + 1].path = path

\* shutdown_sound has emptied the resource table and left unique_paths, and
\* a record loaded afterwards has an effect whose resource_id is taken from
\* unique_paths and is no index of the table
StaleResourceId ==
    /\ soundset_op.op = "shutdown_sound"
    /\ resource = <<>>
    /\ \E p \in Buckets :
          \E i \in 1..Len(Deref(effects, p)) :
              /\ Deref(effects, p)[i].resource_id = 1
              /\ "b.ogg" \in DOMAIN unique_paths
              /\ unique_paths["b.ogg"] = 1

\* load_soundset has called get_sfx_resource with such an id
PreloadOverrun == soundset_op.op = "overrun"

C26_EmptyChunkFinished ==
    /\ voice = "Finished" /\ ~halt_requested
    /\ num_source_samples = 0 /\ played = 0

\* C27: the callback of a playing voice is never entered with a negative
\* loops_remaining, whatever loops argument the voice was started with, so
\* the assertion of line 717 never fails.
C27_LoopCounterNeverNegativeAtEntry ==
    /\ voice = "Playing" => handler.loops_remaining >= 0
    /\ voice # "Aborted"

\* a voice started with loops = -2 was registered, and its first callback
\* has failed the assertion
NegativeLoopsAborted ==
    /\ voice = "Aborted"
    /\ nloops = -2 /\ handler.loops_remaining = -2
    /\ handler.current_sample_index = 0 /\ played = 0

\* the same voice with assertions compiled out: it has played once and
\* halted itself
NegativeLoopsPlayedOnce ==
    /\ voice = "Finished" /\ halt_requested
    /\ nloops = -2 /\ handler.loops_remaining = -2
    /\ played = TraversalLength /\ num_source_samples > 0

(***************************************************************************)
(* Sound that is disabled.                                                 *)
(***************************************************************************)
\* C25: while sound_init_success is false no loader changes the resolver,
\* the resource table, unique_paths, sfx_preload or the playlists; and a
\* play request or play_music_file made while sound_init_success is false,
\* sound is disabled or the request's volume is not positive creates no
\* handler and no chunk, touches no channel, decodes no resource and
\* starts no music.
C25_DisabledSoundDoesNothing ==
    [][/\ ~sound_init_success =>
              /\ effects' = effects /\ resource' = resource
              /\ unique_paths' = unique_paths
              /\ sfx_preload' = sfx_preload
              /\ playlists' = playlists
       /\ (/\ play' # play
           /\ ~sound_init_success \/ ~sound_enabled \/ play'.volume <= 0) =>
              /\ ~play'.made
              /\ handlers' = handlers /\ chunks' = chunks
              /\ channels' = channels /\ main' = main
              /\ resource' = resource /\ decoded' = decoded
              /\ music_playing' = music_playing
              /\ current_music' = current_music
              /\ music_volume' = music_volume]_vars

\* with the device open and sound disabled by the option, a request with a
\* positive volume was made: no voice, no decoded resource, no music
C25_Witness ==
    /\ sound_init_success /\ ~sound_enabled
    /\ play.op \in PlayOperations /\ play.volume = 100 /\ ~play.made
    /\ handlers = <<>> /\ decoded = <<>>
    /\ music_playing = NoMusic

\* the device failed to open: every loader was called and a request with a
\* positive volume was made, and nothing is loaded and nothing plays
C25_DeviceFailed ==
    /\ ~sound_init_success /\ sound_enabled
    /\ loads = 1 /\ effects = EmptyMap /\ resource = <<>>
    /\ play.op = "play_ambient_variant_sound" /\ play.volume = 100
    /\ handlers = <<>> /\ decoded = <<>>

\* play_music_file was asked for a track with sound disabled
C25_NoMusicStarted ==
    /\ sound_init_success /\ ~sound_enabled
    /\ play.op = "play_music_file" /\ play.volume = 100
    /\ music_playing = NoMusic /\ current_music = NoMusic

(***************************************************************************)
(* What make_audio returns.                                                *)
(***************************************************************************)
\* the voice make_audio is about to return from was started: a channel was
\* given to it, the channel plays and the handler is registered on it
voice_started ==
    /\ main.pc = "make_audio_end"
    /\ main.channel # -1
    /\ channels[main.channel].playing
    /\ \E i \in DOMAIN channels[main.channel].effects :
           channels[main.channel].effects[i] = main.handler

\* a play operation's call of make_audio returns in this step
make_audio_returning ==
    /\ main.pc = "make_audio_end" /\ main'.pc = "idle"
    /\ ~play.done /\ play'.done

C30_StartedReturnsFalse ==
    /\ play.op \in PlayOperations /\ play.made /\ play.done
    /\ ~play.failed /\ ~play.returned /\ ~play.logged
    /\ \E c \in ChannelIds :
           /\ channels[c].playing
           /\ channels[c].effects = <<Len(handlers)>>

====
